---- MODULE Spec2Model ----
(***************************************************************************)
(* Model of nix-options-doc: extraction of option records from Nix files.  *)
(*                                                                         *)
(* Text is a sequence of one-character strings, so that trimming,          *)
(* substitution and joining are computed character by character.           *)
(* A syntax node is what rnix hands to the program:                        *)
(*   [kind, children (child nodes only, as SyntaxNode::children()),        *)
(*    text (the node's source text), start (byte offset of its start)].    *)
(* A source text is represented for line counting by the set of byte       *)
(* offsets at which it holds a newline character.                          *)
(* A HashMap is a sequence of <<key, value>> pairs with distinct keys; the *)
(* order of the sequence is the (unspecified) iteration order.             *)
(***************************************************************************)
EXTENDS Integers, Sequences, FiniteSets, TLC

(***************************************************************************)
(* Bounds of the model                                                     *)
(***************************************************************************)
\* declarations per generated source file
MaxDecls == 2
\* nested assignments above a declaration in the tree-walk specification
MaxNesting == 2

\* later lines of a text given to custom_dedent
MaxLines == 3
\* admonition blocks of a text given to convert_admonitions
MaxBlocks == 2
\* pieces of a description given to process_description
MaxPieces == 3
\* option records given to generate_doc and filter_options
MaxOptions == 3

(***************************************************************************)
(* Text primitives (Rust str methods)                                      *)
(***************************************************************************)
Whitespace == {" ", "\n", "\t"}

is_empty(s) == Len(s) = 0

\* str::starts_with
starts_with(s, p) == Len(p) <= Len(s) /\ SubSeq(s, 1, Len(p)) = p

\* str::ends_with
ends_with(s, p) == Len(p) <= Len(s) /\ SubSeq(s, Len(s) - Len(p) + 1, Len(s)) = p

\* the pattern p occurs in s at (1-based) position i
occurs_at(s, p, i) == i >= 1 /\ i + Len(p) - 1 <= Len(s) /\ SubSeq(s, i, i + Len(p) - 1) = p

\* str::contains
contains(s, p) == \E i \in 1..(Len(s) + 1) : occurs_at(s, p, i)

\* str::trim_start_matches(pattern): removes every repetition of the prefix
RECURSIVE trim_start_matches(_, _)
trim_start_matches(s, p) ==
    IF Len(p) > 0 /\ starts_with(s, p)
    THEN trim_start_matches(SubSeq(s, Len(p) + 1, Len(s)), p)
    ELSE s

\* str::trim_end_matches(pattern): removes every repetition of the suffix
RECURSIVE trim_end_matches(_, _)
trim_end_matches(s, p) ==
    IF Len(p) > 0 /\ ends_with(s, p)
    THEN trim_end_matches(SubSeq(s, 1, Len(s) - Len(p)), p)
    ELSE s

\* str::trim_matches(chars): removes leading and trailing characters of a set
RECURSIVE trim_matches(_, _)
trim_matches(s, cs) ==
    IF Len(s) > 0 /\ s[1] \in cs THEN trim_matches(Tail(s), cs)
    ELSE IF Len(s) > 0 /\ s[Len(s)] \in cs THEN trim_matches(SubSeq(s, 1, Len(s) - 1), cs)
    ELSE s

\* str::trim
trim(s) == trim_matches(s, Whitespace)

\* str::replace(from, to): every non-overlapping occurrence, left to right
RECURSIVE replace(_, _, _)
replace(s, from, to) ==
    IF Len(s) = 0 THEN <<>>
    ELSE IF Len(from) > 0 /\ starts_with(s, from)
         THEN to \o replace(SubSeq(s, Len(from) + 1, Len(s)), from, to)
         ELSE <<s[1]>> \o replace(Tail(s), from, to)

\* [String]::join(sep)
RECURSIVE join(_, _)
join(parts, sep) ==
    IF Len(parts) = 0 THEN <<>>
    ELSE IF Len(parts) = 1 THEN parts[1]
    ELSE parts[1] \o sep \o join(Tail(parts), sep)

\* the ASCII letters, position by position
UpperLetters ==
    <<"A","B","C","D","E","F","G","H","I","J","K","L","M",
      "N","O","P","Q","R","S","T","U","V","W","X","Y","Z">>
LowerLetters ==
    <<"a","b","c","d","e","f","g","h","i","j","k","l","m",
      "n","o","p","q","r","s","t","u","v","w","x","y","z">>

\* str::to_lowercase
to_lowercase(s) ==
    [i \in 1..Len(s) |->
        IF \E k \in 1..Len(UpperLetters) : UpperLetters[k] = s[i]
        THEN LowerLetters[CHOOSE k \in 1..Len(UpperLetters) : UpperLetters[k] = s[i]]
        ELSE s[i]]

\* Option<T>
None == [some |-> FALSE, v |-> <<>>]
Some(x) == [some |-> TRUE, v |-> x]

(***************************************************************************)
(* Literals of the program                                                 *)
(***************************************************************************)
mkEnableOption == <<"m","k","E","n","a","b","l","e","O","p","t","i","o","n">>
mkOption == <<"m","k","O","p","t","i","o","n">>
key_type == <<"t","y","p","e">>
key_description == <<"d","e","s","c","r","i","p","t","i","o","n">>
key_default == <<"d","e","f","a","u","l","t">>
key_example == <<"e","x","a","m","p","l","e">>
\* a default of "true" for mkEnableOption
str_false_wrong == <<"t","r","u","e">>

str_false == <<"f","a","l","s","e">>
str_true == <<"t","r","u","e">>
str_any == <<"a","n","y">>
str_boolean == <<"b","o","o","l","e","a","n">>
str_nix == <<"n","i","x">>
interpol_open == <<"$","{">>
interpol_close == <<"}">>

(***************************************************************************)
(* HashMap<String, String>                                                 *)
(***************************************************************************)
map_is_empty(m) == Len(m) = 0

map_contains(m, k) == \E i \in 1..Len(m) : m[i][1] = k

\* HashMap::get
map_get(m, k) ==
    IF map_contains(m, k)
    THEN Some(m[CHOOSE i \in 1..Len(m) : m[i][1] = k][2])
    ELSE None

(***************************************************************************)
(* Syntax nodes                                                            *)
(***************************************************************************)
\* children().find(|n| n.kind() == kind)
has_child(node, kind) == \E i \in 1..Len(node.children) : node.children[i].kind = kind

find_child(node, kind) ==
    node.children[CHOOSE i \in 1..Len(node.children) :
        /\ node.children[i].kind = kind
        /\ \A j \in 1..(i - 1) : node.children[j].kind # kind]

(***************************************************************************)
(* types.rs: NixType                                                       *)
(***************************************************************************)
NixType(tag, raw) == [tag |-> tag, raw |-> raw]

\* a classification that takes the first wrapper name of the text it finds,
\* trying either before option
from_nix_str_either_first(type_str) ==
    IF type_str = <<"t","y","p","e","s",".","b","o","o","l">> THEN NixType("Bool", <<>>)
    ELSE IF type_str \in {<<"t","y","p","e","s",".","i","n","t">>, <<"t","y","p","e","s",".","i","n","t","e","g","e","r">>} THEN NixType("Int", <<>>)
    ELSE IF type_str = <<"t","y","p","e","s",".","f","l","o","a","t">> THEN NixType("Float", <<>>)
    ELSE IF type_str \in {<<"t","y","p","e","s",".","s","t","r">>, <<"t","y","p","e","s",".","s","t","r","i","n","g">>} THEN NixType("Str", <<>>)
    ELSE IF type_str = <<"t","y","p","e","s",".","p","a","t","h">> THEN NixType("Path", <<>>)
    ELSE IF type_str = <<"t","y","p","e","s",".","a","t","t","r","s">> THEN NixType("Attrs", <<>>)
    ELSE IF type_str = <<"t","y","p","e","s",".","l","i","s","t","O","f">> THEN NixType("List", <<>>)
    ELSE IF contains(type_str, <<"t","y","p","e","s",".","e","n","u","m">>) THEN NixType("Enum", <<".",".",".">>)
    ELSE IF contains(type_str, <<"t","y","p","e","s",".","e","i","t","h","e","r">>) THEN NixType("Either", <<>>)
    ELSE IF contains(type_str, <<"t","y","p","e","s",".","o","p","t","i","o","n">>) THEN NixType("Option", <<>>)
    ELSE NixType("Unknown", type_str)

\* NixType::from_nix_str; the payloads: Enum(vec!["..."]) has raw "...",
\* Option(Unknown("")) and Either(vec![]) have none
from_nix_str(type_str) ==
    IF type_str = <<"t","y","p","e","s",".","b","o","o","l">> THEN NixType("Bool", <<>>)
    ELSE IF type_str \in {<<"t","y","p","e","s",".","i","n","t">>, <<"t","y","p","e","s",".","i","n","t","e","g","e","r">>} THEN NixType("Int", <<>>)
    ELSE IF type_str = <<"t","y","p","e","s",".","f","l","o","a","t">> THEN NixType("Float", <<>>)
    ELSE IF type_str \in {<<"t","y","p","e","s",".","s","t","r">>, <<"t","y","p","e","s",".","s","t","r","i","n","g">>} THEN NixType("Str", <<>>)
    ELSE IF type_str = <<"t","y","p","e","s",".","p","a","t","h">> THEN NixType("Path", <<>>)
    ELSE IF type_str = <<"t","y","p","e","s",".","a","t","t","r","s">> THEN NixType("Attrs", <<>>)
    ELSE IF type_str = <<"t","y","p","e","s",".","l","i","s","t","O","f">> THEN NixType("List", <<>>)
    ELSE IF contains(type_str, <<"t","y","p","e","s",".","e","n","u","m">>) THEN NixType("Enum", <<".",".",".">>)
    ELSE IF contains(type_str, <<"t","y","p","e","s",".","o","p","t","i","o","n">>) THEN NixType("Option", <<>>)
    ELSE IF contains(type_str, <<"t","y","p","e","s",".","e","i","t","h","e","r">>) THEN NixType("Either", <<>>)
    ELSE NixType("Unknown", type_str)

(***************************************************************************)
(* lib.rs: the tree walk that pushes into the shared option list           *)
(***************************************************************************)
\* the count of the newlines alone, a line number that starts at 0
get_line_number_zero_based(node, source_text) ==
    Cardinality({o \in source_text : o < node.start})

\* lib.rs get_line_number: newlines of the source text before the node's start
get_line_number(node, source_text) ==
    Cardinality({o \in source_text : o < node.start}) + 1

\* lib.rs parse_attrpath, one segment: identifiers are kept, an interpolation
\* is looked up by its trimmed inner name, any other kind of segment is dropped
attrpath_segment(child, replacements) ==
    IF child.kind = "NODE_IDENT" THEN <<child.text>>
    ELSE IF child.kind = "NODE_DYNAMIC"
    THEN LET var_name ==
                 trim(trim_end_matches(trim_start_matches(child.text, interpol_open),
                                       interpol_close))
             found == map_get(replacements, var_name)
         IN  <<IF found.some THEN found.v
               ELSE interpol_open \o var_name \o interpol_close>>
    ELSE <<>>

RECURSIVE attrpath_segments(_, _)
attrpath_segments(children, replacements) ==
    IF Len(children) = 0 THEN <<>>
    ELSE attrpath_segment(children[1], replacements)
         \o attrpath_segments(Tail(children), replacements)

\* lib.rs parse_attrpath
parse_attrpath(node, replacements) ==
    join(attrpath_segments(node.children, replacements), <<".">>)

\* a fold that leaves the description as it was read
fold_replacements_identity(acc, replacements) == acc

\* lib.rs: replacements.iter().fold(desc_text, |acc, (k, v)| acc.replace("${k}", v))
RECURSIVE fold_replacements(_, _)
fold_replacements(acc, replacements) ==
    IF Len(replacements) = 0 THEN acc
    ELSE fold_replacements(
             replace(acc, interpol_open \o replacements[1][1] \o interpol_close,
                     replacements[1][2]),
             Tail(replacements))

\* lib.rs: v.text().to_string().trim_matches('"') followed by the fold
lib_description(node, replacements) ==
    fold_replacements(trim_matches(node.text, {"\""}), replacements)

\* push without the retain: an earlier record of the same name stays
push_option_no_retain(options, doc) == Append(options, doc)

\* push that keeps an earlier record of the same name and drops the new one
push_option_keep_first(options, doc) ==
    IF \E i \in 1..Len(options) : options[i].name = doc.name
    THEN options ELSE Append(options, doc)

\* lib.rs: options.retain(|opt| opt.name != current_prefix); options.push(doc)
push_option(options, doc) ==
    Append(SelectSeq(options, LAMBDA opt : opt.name # doc.name), doc)

\* a scan of the argument set that has no arm for the default key
RECURSIVE mkoption_fields_no_default(_, _, _)
mkoption_fields_no_default(attrs, acc, replacements) ==
    IF Len(attrs) = 0 THEN acc
    ELSE LET attr == attrs[1]
             has_key == /\ has_child(attr, "NODE_ATTRPATH")
                        /\ Len(find_child(attr, "NODE_ATTRPATH").children) > 0
             attr_key == find_child(attr, "NODE_ATTRPATH").children[1].text
             has_value == Len(attr.children) >= 2
             v == attr.children[2]
             next ==
                 IF attr.kind # "NODE_ATTRPATH_VALUE" \/ ~has_key \/ ~has_value THEN acc
                 ELSE IF attr_key = key_type
                      THEN [acc EXCEPT !.nix_type = from_nix_str(v.text)]
                 ELSE IF attr_key = key_description
                      THEN [acc EXCEPT !.description =
                                Some(lib_description(v, replacements))]
                 ELSE acc
         IN  mkoption_fields_no_default(Tail(attrs), next, replacements)

\* lib.rs parse_attrset, Some("mkOption"): the scan of the argument set
RECURSIVE mkoption_fields(_, _, _)
mkoption_fields(attrs, acc, replacements) ==
    IF Len(attrs) = 0 THEN acc
    ELSE LET attr == attrs[1]
             has_key == /\ has_child(attr, "NODE_ATTRPATH")
                        /\ Len(find_child(attr, "NODE_ATTRPATH").children) > 0
             attr_key == find_child(attr, "NODE_ATTRPATH").children[1].text
             has_value == Len(attr.children) >= 2
             v == attr.children[2]
             next ==
                 IF attr.kind # "NODE_ATTRPATH_VALUE" \/ ~has_key \/ ~has_value THEN acc
                 ELSE IF attr_key = key_type
                      THEN [acc EXCEPT !.nix_type = from_nix_str(v.text)]
                 ELSE IF attr_key = key_description
                      THEN [acc EXCEPT !.description =
                                Some(lib_description(v, replacements))]
                 ELSE IF attr_key = key_default
                      THEN [acc EXCEPT !.default_value = Some(v.text)]
                 ELSE acc
         IN  mkoption_fields(Tail(attrs), next, replacements)

\* lib.rs parse_attrset: the called name, the last child of the first NODE_SELECT
lib_fn_name(node) ==
    IF has_child(node, "NODE_SELECT") /\ Len(find_child(node, "NODE_SELECT").children) > 0
    THEN LET sel == find_child(node, "NODE_SELECT")
         IN  Some(sel.children[Len(sel.children)].text)
    ELSE None

RECURSIVE visit_node(_, _, _, _, _, _)
RECURSIVE parse_attrset(_, _, _, _, _, _)
RECURSIVE visit_children(_, _, _, _, _, _)

\* a loop over the children that gives up at the first NODE_ERROR child
visit_children_until_error(children, file_path, options, prefix, replacements, source_text) ==
    IF Len(children) = 0 \/ children[1].kind = "NODE_ERROR" THEN options
    ELSE visit_children(
             Tail(children), file_path,
             visit_node(children[1], file_path, options, prefix, replacements,
                        source_text),
             prefix, replacements, source_text)

\* lib.rs: for child in node.children() { visit_node(&child, ...)?; }
visit_children(children, file_path, options, prefix, replacements, source_text) ==
    IF Len(children) = 0 THEN options
    ELSE visit_children(
             Tail(children), file_path,
             visit_node(children[1], file_path, options, prefix, replacements,
                        source_text),
             prefix, replacements, source_text)

\* lib.rs visit_node
visit_node(node, file_path, options, prefix, replacements, source_text) ==
    IF node.kind = "NODE_ATTRPATH_VALUE"
    THEN IF Len(node.children) >= 2 /\ has_child(node, "NODE_ATTRPATH")
         THEN LET key == parse_attrpath(find_child(node, "NODE_ATTRPATH"), replacements)
                  new_prefix == IF is_empty(prefix) THEN key
                                ELSE prefix \o <<".">> \o key
              IN  parse_attrset(node.children[2], file_path, options, new_prefix,
                                replacements, source_text)
         ELSE options
    ELSE visit_children(node.children, file_path, options, prefix, replacements,
                        source_text)

\* lib.rs parse_attrset
parse_attrset(node, file_path, options, current_prefix, replacements, source_text) ==
    IF node.kind = "NODE_ATTR_SET"
    THEN visit_children(node.children, file_path, options, current_prefix,
                        replacements, source_text)
    ELSE IF node.kind = "NODE_APPLY"
    THEN LET fn_name == lib_fn_name(node)
         IN  IF fn_name = Some(mkEnableOption)
             THEN push_option(options,
                      [name |-> current_prefix,
                       description |->
                           IF has_child(node, "NODE_STRING")
                           THEN Some(lib_description(find_child(node, "NODE_STRING"),
                                                     replacements))
                           ELSE None,
                       nix_type |-> NixType("Bool", <<>>),
                       default_value |-> Some(str_false),
                       file_path |-> file_path,
                       line_number |-> get_line_number(node, source_text)])
             ELSE IF fn_name = Some(mkOption)
             THEN LET init == [nix_type |-> NixType("Unknown", str_any),
                               description |-> None,
                               default_value |-> None]
                      f == IF has_child(node, "NODE_ATTR_SET")
                           THEN mkoption_fields(find_child(node, "NODE_ATTR_SET").children,
                                                init, replacements)
                           ELSE init
                  IN  push_option(options,
                          [name |-> current_prefix,
                           description |-> f.description,
                           nix_type |-> f.nix_type,
                           default_value |-> f.default_value,
                           file_path |-> file_path,
                           line_number |-> get_line_number(node, source_text)])
             ELSE options
    ELSE options

(***************************************************************************)
(* utils.rs: text normalisation                                            *)
(***************************************************************************)
\* the backtick character (a string cannot hold it)
Backtick == "BACKTICK"

LowerAZ ==
    {"a","b","c","d","e","f","g","h","i","j","k","l","m",
     "n","o","p","q","r","s","t","u","v","w","x","y","z"}

\* index of the first occurrence of the pattern p in s at or after i, else 0
find_from(s, p, i) ==
    IF \E j \in i..(Len(s) + 1) : occurs_at(s, p, j)
    THEN CHOOSE j \in i..(Len(s) + 1) :
             occurs_at(s, p, j) /\ \A h \in i..(j - 1) : ~occurs_at(s, p, h)
    ELSE 0

\* index of the last occurrence of the pattern p in s, else 0 (str::rfind)
rfind(s, p) ==
    IF contains(s, p)
    THEN CHOOSE j \in 1..(Len(s) + 1) :
             occurs_at(s, p, j) /\ \A h \in (j + 1)..(Len(s) + 1) : ~occurs_at(s, p, h)
    ELSE 0

\* length of the longest run of characters of the set cs that starts at s[i]
RECURSIVE run_length(_, _, _)
run_length(s, cs, i) ==
    IF i <= Len(s) /\ s[i] \in cs THEN 1 + run_length(s, cs, i + 1) ELSE 0

\* VAR_REGEX \$\{([^}]+)\} replaced over the whole text, left to right
RECURSIVE replace_vars(_, _)
replace_vars(s, replacements) ==
    IF Len(s) = 0 THEN <<>>
    ELSE LET close == find_from(s, interpol_close, 3)
             matched == starts_with(s, interpol_open) /\ close >= 4
             value == map_get(replacements, SubSeq(s, 3, close - 1))
         IN  IF matched
             THEN (IF value.some THEN value.v ELSE SubSeq(s, 1, close))
                  \o replace_vars(SubSeq(s, close + 1, Len(s)), replacements)
             ELSE <<s[1]>> \o replace_vars(Tail(s), replacements)

\* utils.rs apply_replacements
apply_replacements(text, replacements) ==
    IF map_is_empty(replacements) THEN text ELSE replace_vars(text, replacements)

\* str::lines: split at line feeds, no final empty line
RECURSIVE lines(_)
lines(s) ==
    IF Len(s) = 0 THEN <<>>
    ELSE LET nl == find_from(s, <<"\n">>, 1)
         IN  IF nl = 0 THEN <<s>>
             ELSE <<SubSeq(s, 1, nl - 1)>> \o lines(SubSeq(s, nl + 1, Len(s)))

has_non_whitespace(line) == \E i \in 1..Len(line) : line[i] \notin Whitespace

\* textwrap::dedent, first loop: the whitespace prefix of the first line that
\* holds anything but whitespace, and the lines after it
RECURSIVE dedent_first_prefix(_)
dedent_first_prefix(ls) ==
    IF Len(ls) = 0 THEN [prefix |-> <<>>, rest |-> <<>>]
    ELSE IF has_non_whitespace(ls[1])
         THEN [prefix |-> SubSeq(ls[1], 1, run_length(ls[1], Whitespace, 1)),
               rest |-> Tail(ls)]
         ELSE dedent_first_prefix(Tail(ls))

\* number of leading positions at which line and prefix agree
RECURSIVE agree_length(_, _, _)
agree_length(line, prefix, i) ==
    IF i <= Len(line) /\ i <= Len(prefix) /\ line[i] = prefix[i]
    THEN 1 + agree_length(line, prefix, i + 1)
    ELSE 0

\* textwrap::dedent, second loop: the prefix shortened by the later lines
RECURSIVE dedent_shorten(_, _)
dedent_shorten(prefix, ls) ==
    IF Len(ls) = 0 THEN prefix
    ELSE LET line == ls[1]
             agree == agree_length(line, prefix, 1)
             whitespace_idx ==
                 IF agree < Len(line) /\ agree < Len(prefix) THEN agree ELSE Len(line)
         IN  dedent_shorten(
                 IF whitespace_idx < Len(line) /\ whitespace_idx < Len(prefix)
                 THEN SubSeq(line, 1, whitespace_idx) ELSE prefix,
                 Tail(ls))

\* textwrap::dedent, third loop: every line without the prefix, each followed
\* by a line feed
RECURSIVE dedent_build(_, _)
dedent_build(ls, prefix) ==
    IF Len(ls) = 0 THEN <<>>
    ELSE (IF starts_with(ls[1], prefix) /\ has_non_whitespace(ls[1])
          THEN SubSeq(ls[1], Len(prefix) + 1, Len(ls[1])) ELSE <<>>)
         \o <<"\n">> \o dedent_build(Tail(ls), prefix)

\* textwrap::dedent
dedent(s) ==
    LET first == dedent_first_prefix(lines(s))
        prefix == dedent_shorten(first.prefix, first.rest)
        result == dedent_build(lines(s), prefix)
    IN  IF ends_with(result, <<"\n">>) /\ ~ends_with(s, <<"\n">>)
        THEN SubSeq(result, 1, Len(result) - 1)
        ELSE result

\* utils.rs custom_dedent
custom_dedent(text) ==
    LET pos == find_from(text, <<"\n">>, 1)
    IN  IF pos > 0
        THEN SubSeq(text, 1, pos - 1) \o dedent(SubSeq(text, pos, Len(text)))
        ELSE text

fence == <<":",":",":">>

\* utils.rs convert_admonitions: the GitHub type of a Pandoc admonition type
github_type(admonition_type) ==
    IF admonition_type = <<"n","o","t","e">> THEN <<"N","O","T","E">>
    ELSE IF admonition_type \in {<<"w","a","r","n","i","n","g">>, <<"c","a","u","t","i","o","n">>} THEN <<"W","A","R","N","I","N","G">>
    ELSE IF admonition_type = <<"i","m","p","o","r","t","a","n","t">> THEN <<"I","M","P","O","R","T","A","N","T">>
    ELSE IF admonition_type = <<"t","i","p">> THEN <<"T","I","P">>
    ELSE <<"N","O","T","E">>

\* convert_admonitions that quotes the first line of the content only
RECURSIVE convert_admonitions_first_line_only(_)
convert_admonitions_first_line_only(text) ==
    IF Len(text) = 0 THEN <<>>
    ELSE LET brace == 4 + run_length(text, Whitespace, 4)
             kind_len == run_length(text, LowerAZ, brace + 2)
             close == brace + 2 + kind_len
             end == find_from(text, fence, close + 1)
             matched == /\ starts_with(text, fence)
                        /\ occurs_at(text, <<"{", ".">>, brace)
                        /\ kind_len >= 1
                        /\ occurs_at(text, <<"}">>, close)
                        /\ end > 0
         IN  IF matched
             THEN <<">", " ", "[", "!">>
                  \o github_type(SubSeq(text, brace + 2, close - 1))
                  \o <<"]", " ", " ", "\n", ">", " ">>
                  \o trim(SubSeq(text, close + 1, end - 1))
                  \o convert_admonitions_first_line_only(SubSeq(text, end + 3, Len(text)))
             ELSE <<text[1]>> \o convert_admonitions_first_line_only(Tail(text))

\* utils.rs convert_admonitions: ADMONITION_REGEX
\* :::\s*\{\.([a-z]+)\}([\s\S]*?)::: replaced over the whole text
RECURSIVE convert_admonitions(_)
convert_admonitions(text) ==
    IF Len(text) = 0 THEN <<>>
    ELSE LET brace == 4 + run_length(text, Whitespace, 4)
             kind_len == run_length(text, LowerAZ, brace + 2)
             close == brace + 2 + kind_len
             end == find_from(text, fence, close + 1)
             matched == /\ starts_with(text, fence)
                        /\ occurs_at(text, <<"{", ".">>, brace)
                        /\ kind_len >= 1
                        /\ occurs_at(text, <<"}">>, close)
                        /\ end > 0
             admonition_type == SubSeq(text, brace + 2, close - 1)
             content == trim(SubSeq(text, close + 1, end - 1))
         IN  IF matched
             THEN <<">", " ", "[", "!">> \o github_type(admonition_type)
                  \o <<"]", " ", " ", "\n", ">", " ">>
                  \o replace(content, <<"\n">>, <<"\n", ">", " ">>)
                  \o convert_admonitions(SubSeq(text, end + 3, Len(text)))
             ELSE <<text[1]>> \o convert_admonitions(Tail(text))

\* utils.rs clean_description: DIRECTIVE_REGEX, a role in braces
\* followed by a code span in backticks, replaced by the code span
RECURSIVE strip_directives(_)
strip_directives(text) ==
    IF Len(text) = 0 THEN <<>>
    ELSE LET role_len == run_length(text, LowerAZ, 2)
             tick == role_len + 3
             end == find_from(text, <<Backtick>>, tick + 1)
             matched == /\ text[1] = "{"
                        /\ role_len >= 1
                        /\ occurs_at(text, <<"}", Backtick>>, role_len + 2)
                        /\ end >= tick + 2
         IN  IF matched
             THEN SubSeq(text, tick, end) \o strip_directives(SubSeq(text, end + 1, Len(text)))
             ELSE <<text[1]>> \o strip_directives(Tail(text))

\* utils.rs clean_description
clean_description(text) == convert_admonitions(strip_directives(text))

lib_literalExpression == <<"l","i","b",".","l","i","t","e","r","a","l","E","x","p","r","e","s","s","i","o","n">>
literalExpression == <<"l","i","t","e","r","a","l","E","x","p","r","e","s","s","i","o","n">>

\* utils.rs clean_literal_expr
clean_literal_expr(raw) ==
    LET value == trim(raw)
        q2 == <<"'", "'">>
        q1 == <<"\"">>
        start2 == find_from(value, q2, 1) + 2
        start1 == find_from(value, q1, 1) + 1
    IN  IF starts_with(value, lib_literalExpression) \/ starts_with(value, literalExpression)
        THEN IF contains(value, q2)
             THEN IF rfind(value, q2) > start2
                  THEN trim(SubSeq(value, start2, rfind(value, q2) - 1))
                  ELSE value
             ELSE IF contains(value, q1)
             THEN IF rfind(value, q1) > start1
                  THEN trim(SubSeq(value, start1, rfind(value, q1) - 1))
                  ELSE value
             ELSE value
        ELSE value

(***************************************************************************)
(* parser.rs: the tree walk that returns the option list of one file       *)
(***************************************************************************)
\* parser.rs parse_attrpath: every child, whatever its kind, is a segment
RECURSIVE parser_attrpath_segments(_, _)
parser_attrpath_segments(children, replacements) ==
    IF Len(children) = 0 THEN <<>>
    ELSE <<apply_replacements(children[1].text, replacements)>>
         \o parser_attrpath_segments(Tail(children), replacements)

parser_parse_attrpath(node, replacements) ==
    join(parser_attrpath_segments(node.children, replacements), <<".">>)

\* parser.rs process_description
process_description(description, replacements) ==
    clean_description(custom_dedent(apply_replacements(description, replacements)))

\* parser.rs: n.text().to_string().trim_matches(['"', '\'']), then process_description
parser_description(node, replacements) ==
    process_description(trim_matches(node.text, {"\"", "'"}), replacements)

\* parser.rs parse_attrset: the called name, from a NODE_SELECT, else a NODE_IDENT
parser_fn_name(node) ==
    IF has_child(node, "NODE_SELECT") /\ Len(find_child(node, "NODE_SELECT").children) > 0
    THEN LET sel == find_child(node, "NODE_SELECT")
         IN  Some(sel.children[Len(sel.children)].text)
    ELSE IF has_child(node, "NODE_IDENT")
    THEN Some(find_child(node, "NODE_IDENT").text)
    ELSE None

\* parser.rs parse_attrset, Some("mkOption"): the scan of the argument set
RECURSIVE parser_mkoption_fields(_, _, _)
parser_mkoption_fields(attrs, acc, replacements) ==
    IF Len(attrs) = 0 THEN acc
    ELSE LET attr == attrs[1]
             has_key == /\ has_child(attr, "NODE_ATTRPATH")
                        /\ Len(find_child(attr, "NODE_ATTRPATH").children) > 0
             attr_key == find_child(attr, "NODE_ATTRPATH").children[1].text
             has_value == Len(attr.children) >= 2
             v == attr.children[2]
             next ==
                 IF attr.kind # "NODE_ATTRPATH_VALUE" \/ ~has_key \/ ~has_value THEN acc
                 ELSE IF attr_key = key_type
                      THEN [acc EXCEPT !.nix_type = custom_dedent(v.text)]
                 ELSE IF attr_key = key_description
                      THEN [acc EXCEPT !.description =
                                Some(parser_description(v, replacements))]
                 ELSE IF attr_key = key_default
                      THEN [acc EXCEPT !.default_value =
                                Some(custom_dedent(clean_literal_expr(v.text)))]
                 ELSE IF attr_key = key_example
                      THEN [acc EXCEPT !.example =
                                Some(custom_dedent(clean_literal_expr(v.text)))]
                 ELSE acc
         IN  parser_mkoption_fields(Tail(attrs), next, replacements)

RECURSIVE parser_visit_node(_, _, _, _, _)
RECURSIVE parser_parse_attrset(_, _, _, _, _)
RECURSIVE parser_visit_children(_, _, _, _, _)

\* parser.rs: for child in node.children() { options.append(visit_node(&child, ...)?) }
parser_visit_children(children, file_path, prefix, replacements, source_text) ==
    IF Len(children) = 0 THEN <<>>
    ELSE parser_visit_node(children[1], file_path, prefix, replacements, source_text)
         \o parser_visit_children(Tail(children), file_path, prefix, replacements,
                                  source_text)

\* parser.rs visit_node
parser_visit_node(node, file_path, prefix, replacements, source_text) ==
    IF node.kind = "NODE_ATTRPATH_VALUE"
    THEN IF Len(node.children) >= 2 /\ has_child(node, "NODE_ATTRPATH")
         THEN LET key == parser_parse_attrpath(find_child(node, "NODE_ATTRPATH"),
                                               replacements)
                  new_prefix == IF is_empty(prefix) THEN key
                                ELSE prefix \o <<".">> \o key
              IN  parser_parse_attrset(node.children[2], file_path, new_prefix,
                                       replacements, source_text)
         ELSE <<>>
    ELSE parser_visit_children(node.children, file_path, prefix, replacements,
                               source_text)

\* parser.rs parse_attrset
parser_parse_attrset(node, file_path, current_prefix, replacements, source_text) ==
    IF node.kind = "NODE_ATTR_SET"
    THEN parser_visit_children(node.children, file_path, current_prefix, replacements,
                               source_text)
    ELSE IF node.kind = "NODE_APPLY"
    THEN LET fn_name == parser_fn_name(node)
         IN  IF fn_name = Some(mkEnableOption)
             THEN <<[name |-> current_prefix,
                     description |->
                         IF has_child(node, "NODE_STRING")
                         THEN Some(parser_description(find_child(node, "NODE_STRING"),
                                                      replacements))
                         ELSE None,
                     nix_type |-> str_boolean,
                     default_value |-> Some(str_false),
                     example |-> Some(str_true),
                     file_path |-> file_path,
                     line_number |-> get_line_number(node, source_text)]>>
             ELSE IF fn_name = Some(mkOption)
             THEN LET init == [nix_type |-> str_any,
                               description |-> None,
                               default_value |-> None,
                               example |-> None]
                      f == IF has_child(node, "NODE_ATTR_SET")
                           THEN parser_mkoption_fields(
                                    find_child(node, "NODE_ATTR_SET").children,
                                    init, replacements)
                           ELSE init
                  IN  <<[name |-> current_prefix,
                         description |-> f.description,
                         nix_type |-> f.nix_type,
                         default_value |-> f.default_value,
                         example |-> f.example,
                         file_path |-> file_path,
                         line_number |-> get_line_number(node, source_text)]>>
             ELSE <<>>
    ELSE IF node.kind = "NODE_WITH"
    THEN IF Len(node.children) >= 2
         THEN parser_visit_node(node.children[2], file_path, current_prefix,
                                replacements, source_text)
         ELSE <<>>
    ELSE <<>>

(***************************************************************************)
(* lib.rs: filter_options and generate_doc                                 *)
(***************************************************************************)
\* types.rs Display for NixType; raw is the one value of an Enum, and Option
\* and Either carry what from_nix_str, their only constructor in the program,
\* puts in them: Unknown("") and no types
to_string(t) ==
    IF t.tag = "Bool" THEN str_boolean
    ELSE IF t.tag = "Int" THEN <<"i","n","t","e","g","e","r">>
    ELSE IF t.tag = "Float" THEN <<"f","l","o","a","t">>
    ELSE IF t.tag = "Str" THEN <<"s","t","r","i","n","g">>
    ELSE IF t.tag = "Path" THEN <<"p","a","t","h">>
    ELSE IF t.tag = "Enum"
         THEN IF t.raw = <<>> THEN <<"e","n","u","m">>
              ELSE <<"e","n","u","m",":"," ","[">> \o t.raw \o <<"]">>
    ELSE IF t.tag = "Attrs" THEN <<"a","t","t","r","i","b","u","t","e"," ","s","e","t">>
    ELSE IF t.tag = "List" THEN <<"l","i","s","t">>
    ELSE IF t.tag = "Set" THEN <<"s","e","t">>
    ELSE IF t.tag = "Option" THEN <<"o","p","t","i","o","n","a","l"," ">>
    ELSE IF t.tag = "Either" THEN <<"e","i","t","h","e","r">>
    ELSE t.raw

\* filter_options without the retain of the search text
filter_options_without_search(options, cli) ==
    LET by_prefix(opt) == ~cli.prefix.some \/ starts_with(opt.name, cli.prefix.v)
        by_default(opt) == ~cli.has_default \/ opt.default_value.some
        by_description(opt) == ~cli.has_description \/ opt.description.some
    IN  SelectSeq(SelectSeq(SelectSeq(options, by_prefix), by_default), by_description)

\* lib.rs filter_options: a copy of the slice, then one retain per active filter
filter_options(options, cli) ==
    LET by_prefix(opt) == ~cli.prefix.some \/ starts_with(opt.name, cli.prefix.v)
        by_type(opt) ==
            \/ ~cli.type_filter.some
            \/ contains(to_lowercase(to_string(opt.nix_type)),
                        to_lowercase(cli.type_filter.v))
        by_search(opt) ==
            \/ ~cli.search.some
            \/ contains(to_lowercase(opt.name), to_lowercase(cli.search.v))
            \/ /\ opt.description.some
               /\ contains(to_lowercase(opt.description.v), to_lowercase(cli.search.v))
        by_default(opt) == ~cli.has_default \/ opt.default_value.some
        by_description(opt) == ~cli.has_description \/ opt.description.some
    IN  SelectSeq(SelectSeq(SelectSeq(SelectSeq(SelectSeq(
            options, by_prefix), by_type), by_search), by_default), by_description)

\* String::cmp(a, b) = Less: the order of the bytes, a proper prefix first;
\* ByteOrder lists the characters of the model in the order of their bytes
RECURSIVE cmp_less(_, _)
cmp_less(a, b) ==
    LET ByteOrder == <<"$", ".">> \o UpperLetters \o LowerLetters \o <<"{", "}">>
        byte(c) == CHOOSE k \in 1..Len(ByteOrder) : ByteOrder[k] = c
    IN  IF Len(b) = 0 THEN FALSE
        ELSE IF Len(a) = 0 THEN TRUE
        ELSE IF a[1] # b[1] THEN byte(a[1]) < byte(b[1])
        ELSE cmp_less(Tail(a), Tail(b))

\* an unstable sort: each element goes in front of the elements already placed
\* that are not less
RECURSIVE sort_by_name_unstable(_)
sort_by_name_unstable(options) ==
    IF Len(options) = 0 THEN <<>>
    ELSE LET last == options[Len(options)]
             front == sort_by_name_unstable(SubSeq(options, 1, Len(options) - 1))
             keep == Cardinality({i \in 1..Len(front) : cmp_less(front[i].name, last.name)})
         IN  SubSeq(front, 1, keep) \o <<last>> \o SubSeq(front, keep + 1, Len(front))

\* slice::sort_by(|a, b| a.name.cmp(&b.name)), a stable sort: each element goes
\* behind the elements already placed that are not greater
RECURSIVE sort_by_name(_)
sort_by_name(options) ==
    IF Len(options) = 0 THEN <<>>
    ELSE LET last == options[Len(options)]
             front == sort_by_name(SubSeq(options, 1, Len(options) - 1))
             keep == Cardinality({i \in 1..Len(front) : ~cmp_less(last.name, front[i].name)})
         IN  SubSeq(front, 1, keep) \o <<last>> \o SubSeq(front, keep + 1, Len(front))

\* generate_markdown, generate_json, generate_html, generate_csv: one entry per
\* option, in the order of the slice (for option in options)
generate_entries(options, format) ==
    [i \in 1..Len(options) |->
        [format |-> format, name |-> options[i].name,
         file_path |-> options[i].file_path, line_number |-> options[i].line_number]]

\* lib.rs generate_doc
generate_doc(options, format, sorted) ==
    LET options_copy == IF sorted THEN sort_by_name(options) ELSE options
    IN  generate_entries(options_copy, format)

(***************************************************************************)
(* The syntax trees rnix builds for the source shapes of the model         *)
(***************************************************************************)
\* Only the start of a call node is read by the program; other nodes carry 0.
Node(kind, children, text, start) ==
    [kind |-> kind, children |-> children, text |-> text, start |-> start]

Ident(text) == Node("NODE_IDENT", <<>>, text, 0)

\* an interpolation of an attribute path, text "${...}"
Dynamic(text) == Node("NODE_DYNAMIC", <<>>, text, 0)

\* a string literal, text with its delimiters
Str(text) == Node("NODE_STRING", <<>>, text, 0)

RECURSIVE texts_of(_)
texts_of(nodes) ==
    IF Len(nodes) = 0 THEN <<>> ELSE <<nodes[1].text>> \o texts_of(Tail(nodes))

AttrPath(segments) == Node("NODE_ATTRPATH", segments, join(texts_of(segments), <<".">>), 0)

\* base.member
Select(base, member) ==
    Node("NODE_SELECT", <<base, AttrPath(<<member>>)>>,
         base.text \o <<".">> \o member.text, 0)

\* f arg
Apply(f, arg, start) ==
    Node("NODE_APPLY", <<f, arg>>, f.text \o <<" ">> \o arg.text, start)

\* { a = v; ... }
AttrSet(entries) ==
    Node("NODE_ATTR_SET", entries,
         <<"{", " ">> \o join(texts_of(entries), <<" ">>) \o <<" ", "}">>, 0)

\* path = value;
AttrpathValue(path, value) ==
    Node("NODE_ATTRPATH_VALUE", <<path, value>>,
         path.text \o <<" ", "=", " ">> \o value.text \o <<";">>, 0)

\* with namespace; body
With(namespace, body) ==
    Node("NODE_WITH", <<namespace, body>>,
         <<"w", "i", "t", "h", " ">> \o namespace.text \o <<";", " ">> \o body.text, 0)

\* the root of a file whose expression is an attribute set
Root(entries) ==
    LET set == AttrSet(entries)
    IN  Node("NODE_ROOT", <<set>>, set.text, 0)

str_lib == <<"l","i","b">>
str_mkIf == <<"m","k","I","f">>

\* the values a declaration of the model can have; desc is the text of a string
\* literal, delimiters included
DeclValue(shape, desc, start) ==
    IF shape = "enable"
    THEN Apply(Select(Ident(str_lib), Ident(mkEnableOption)), Str(desc), start)
    ELSE IF shape = "enable_nostring"
    THEN Apply(Select(Ident(str_lib), Ident(mkEnableOption)), Ident(<<"x">>), start)
    ELSE IF shape = "option"
    THEN Apply(Select(Ident(str_lib), Ident(mkOption)),
               AttrSet(<<AttrpathValue(AttrPath(<<Ident(key_type)>>),
                                       Select(Ident(<<"t">>), Ident(<<"s">>))),
                         AttrpathValue(AttrPath(<<Ident(key_description)>>), Str(desc)),
                         AttrpathValue(AttrPath(<<Ident(key_default)>>),
                                       Str(<<"\"", "v", "\"">>))>>),
               start)
    ELSE IF shape = "option_empty"
    THEN Apply(Select(Ident(str_lib), Ident(mkOption)), AttrSet(<<>>), start)
    ELSE IF shape = "bare_enable"
    THEN Apply(Ident(mkEnableOption), Str(desc), start)
    ELSE IF shape = "other_call"
    THEN Apply(Select(Ident(str_lib), Ident(str_mkIf)), Str(desc), start)
    ELSE IF shape = "option_noset"
    THEN Apply(Select(Ident(str_lib), Ident(mkOption)), Ident(<<"x">>), start)
    ELSE IF shape = "option_type"
    THEN Apply(Select(Ident(str_lib), Ident(mkOption)),
               AttrSet(<<AttrpathValue(AttrPath(<<Ident(key_type)>>),
                                       Select(Ident(<<"t">>), Ident(<<"s">>)))>>),
               start)
    ELSE IF shape = "option_description"
    THEN Apply(Select(Ident(str_lib), Ident(mkOption)),
               AttrSet(<<AttrpathValue(AttrPath(<<Ident(key_description)>>), Str(desc))>>),
               start)
    ELSE IF shape = "option_default"
    THEN Apply(Select(Ident(str_lib), Ident(mkOption)),
               AttrSet(<<AttrpathValue(AttrPath(<<Ident(key_default)>>),
                                       Str(<<"\"", "v", "\"">>))>>),
               start)
    ELSE IF shape = "option_example"
    THEN Apply(Select(Ident(str_lib), Ident(mkOption)),
               AttrSet(<<AttrpathValue(AttrPath(<<Ident(key_example)>>),
                                       Str(<<"\"", "e", "\"">>))>>),
               start)
    ELSE IF shape = "bare_option"
    THEN Apply(Ident(mkOption), AttrSet(<<>>), start)
    ELSE IF shape = "arg_select"
    THEN Apply(Ident(<<"f">>), Select(Ident(str_lib), Ident(mkOption)), start)
    ELSE IF shape = "near_name"
    THEN Apply(Select(Ident(str_lib), Ident(mkOption \o <<"s">>)), AttrSet(<<>>), start)
    ELSE IF shape = "lambda"
    THEN Node("NODE_LAMBDA",
              <<Ident(<<"x">>),
                Apply(Select(Ident(str_lib), Ident(mkEnableOption)),
                      Str(<<"\"", "d", "\"">>), start)>>,
              <<"x", ":", " ">>, start)
    ELSE IF shape = "error"
    THEN Node("NODE_ERROR", <<>>, <<>>, start)
    ELSE IF shape = "with_set"
    THEN Apply(Select(Ident(str_lib), Ident(mkEnableOption)), Str(<<"\"", "d", "\"">>),
               start)
    ELSE IF shape = "with_call"
    THEN With(Ident(str_lib),
              Apply(Select(Ident(str_lib), Ident(mkEnableOption)),
                    Str(<<"\"", "d", "\"">>), start))
    ELSE IF shape = "with_bound"
    THEN With(AttrSet(<<AttrpathValue(
                            AttrPath(<<Ident(<<"w">>)>>),
                            Apply(Select(Ident(str_lib), Ident(mkEnableOption)),
                                  Str(<<"\"", "d", "\"">>), start))>>),
              Ident(<<"x">>))
    ELSE IF shape = "option_default_path"
    THEN Apply(Select(Ident(str_lib), Ident(mkOption)),
               AttrSet(<<AttrpathValue(AttrPath(<<Ident(key_default), Ident(<<"f">>)>>),
                                       Str(<<"\"", "v", "\"">>))>>),
               start)
    ELSE IF shape = "option_longer_key"
    THEN Apply(Select(Ident(str_lib), Ident(mkOption)),
               AttrSet(<<AttrpathValue(AttrPath(<<Ident(key_default \o <<"s">>)>>),
                                       Str(<<"\"", "v", "\"">>))>>),
               start)
    ELSE IF shape = "option_nested_pair"
    THEN Apply(Select(Ident(str_lib), Ident(mkOption)),
               AttrSet(<<AttrpathValue(
                             AttrPath(<<Ident(<<"x">>)>>),
                             AttrSet(<<AttrpathValue(AttrPath(<<Ident(key_default)>>),
                                                     Str(<<"\"", "v", "\"">>))>>))>>),
               start)
    ELSE Str(desc)

\* byte offset of the call of the i-th declaration of a generated file: every
\* declaration is on a line of its own, after one opening line
decl_start(i) == i * 10
source_newlines(n) == {i * 10 - 1 : i \in 1..(n + 1)}

\* a generated file: its declarations in source order, as assignments of one
\* attribute set
RECURSIVE decl_entries(_, _)
decl_entries(decls, i) ==
    IF i > Len(decls) THEN <<>>
    ELSE <<AttrpathValue(AttrPath(decls[i].path),
                         DeclValue(decls[i].shape, decls[i].desc, decl_start(i)))>>
         \o decl_entries(decls, i + 1)

file_tree(decls) == Root(decl_entries(decls, 1))

(***************************************************************************)
(* std::path                                                               *)
(***************************************************************************)
\* the components of a path text: the runs between '/' characters
RECURSIVE path_components(_)
path_components(s) ==
    IF Len(s) = 0 THEN <<>>
    ELSE LET slash == find_from(s, <<"/">>, 1)
         IN  IF slash = 0 THEN <<s>>
             ELSE (IF slash = 1 THEN <<>> ELSE <<SubSeq(s, 1, slash - 1)>>)
                  \o path_components(SubSeq(s, slash + 1, Len(s)))

\* PathBuf::from
PathBuf(s) == [absolute |-> starts_with(s, <<"/">>), components |-> path_components(s)]

\* Path::join
path_join(base, p) ==
    IF p.absolute THEN p
    ELSE [absolute |-> base.absolute, components |-> base.components \o p.components]

\* a comparison of the path texts, character by character
path_starts_with_textual(p, base) ==
    /\ p.absolute = base.absolute
    /\ starts_with(join(p.components, <<"/">>), join(base.components, <<"/">>))

\* Path::starts_with: whole components only
path_starts_with(p, base) ==
    /\ p.absolute = base.absolute
    /\ Len(base.components) <= Len(p.components)
    /\ SubSeq(p.components, 1, Len(base.components)) = base.components

\* Path::file_name
file_name(p) == p.components[Len(p.components)]

\* Path::extension: the part of the file name after its last '.', if that '.'
\* is not the first character of the name
extension(p) ==
    LET name == file_name(p)
        dot == rfind(name, <<".">>)
    IN  IF dot > 1 THEN Some(SubSeq(name, dot + 1, Len(name))) ELSE None

\* Path::strip_prefix(dir) followed by to_string_lossy
relative_path(p, base) ==
    join(SubSeq(p.components, Len(base.components) + 1, Len(p.components)), <<"/">>)

(***************************************************************************)
(* The directory tree and the inputs of collect_options                    *)
(***************************************************************************)
\* the root directory given to collect_options
dir == PathBuf(<<"/", "r">>)

name_a_nix == <<"a", ".", "n", "i", "x">>
name_b_nix == <<"b", ".", "n", "i", "x">>
name_hidden_nix == <<".", "h", ".", "n", "i", "x">>
name_x_nix == <<"x", ".", "n", "i", "x">>
name_d_nix == <<"d", ".", "n", "i", "x">>
name_u_nix == <<"u", ".", "n", "i", "x">>
name_n_txt == <<"n", ".", "t", "x", "t">>
name_ex == <<"e", "x">>
name_ex2 == <<"e", "x", "2">>
name_git == <<".", "g", "i", "t">>

\* an entry below the root: its path relative to the root, whether it is a
\* regular file, and whether its content can be read as text
Entry(rel, is_file, readable) == [rel |-> rel, is_file |-> is_file, readable |-> readable]
File(rel) == Entry(rel, TRUE, TRUE)
Directory(rel) == Entry(rel, FALSE, FALSE)

Layouts ==
    { {File(<<name_a_nix>>), File(<<name_b_nix>>)},
      {File(<<name_a_nix>>), File(<<name_hidden_nix>>)},
      {File(<<name_a_nix>>), Directory(<<name_ex>>), File(<<name_ex, name_x_nix>>)},
      {Directory(<<name_ex>>), File(<<name_ex, name_x_nix>>),
       Directory(<<name_ex2>>), File(<<name_ex2, name_x_nix>>)},
      {File(<<name_a_nix>>), Directory(<<name_d_nix>>), File(<<name_n_txt>>)},
      {File(<<name_a_nix>>), Directory(<<name_git>>), File(<<name_git, name_x_nix>>)},
      {File(<<name_a_nix>>), Entry(<<name_u_nix>>, TRUE, FALSE)} }

\* the exclusion lists of the model: none, a relative and an absolute path
ExcludeChoices ==
    { <<>>,
      <<name_ex>>,
      << <<"/", "r", "/", "e", "x">> >> }

\* the substitution tables of the model, in every iteration order
Tables ==
    { <<>>,
      << <<<<"k">>, <<"a">>>> >> }

\* the declarations a generated file is made of
CollectDecls ==
    { [path |-> <<Ident(<<"a">>)>>, shape |-> "enable", desc |-> <<"\"", "x", "\"">>],
      [path |-> <<Ident(<<"a">>)>>, shape |-> "option", desc |-> <<"\"", "y", "\"">>],
      [path |-> <<Dynamic(<<"$", "{", "k", "}">>)>>, shape |-> "enable",
       desc |-> <<"\"", "$", "{", "k", "}", "\"">>] }

SeqsUpTo(S, n) == UNION {[1..m -> S] : m \in 0..n}

FileContents == SeqsUpTo(CollectDecls, MaxDecls)

(***************************************************************************)
(* State                                                                   *)
(***************************************************************************)
VARIABLES
    root_exists,    \* whether the directory given to collect_options exists
    entries,        \* the entries below the root, files with their declarations
    exclude_dirs,   \* argument of collect_options
    replacements,   \* argument of collect_options
    pc,             \* position in collect_options: walk, process, done, error
    yielded,        \* relative paths of the entries WalkDir has yielded so far
    nix_files,      \* lib.rs nix_files
    next_file,      \* index in nix_files of the file the second loop is at
    options,        \* lib.rs options
    reads,          \* the paths given to fs::read_to_string so far
    result,         \* what collect_options returned
    w_input,        \* tree walk alone: the nested assignments and the declaration
    w_table,        \* tree walk alone: the substitution table
    w_pc,           \* tree walk alone: which walks have run
    w_lib,          \* tree walk alone: the list lib.rs visit_node leaves
    w_parser,       \* tree walk alone: the list parser.rs visit_node returns
    call,           \* one function alone: the function that has been called
    args,           \* one function alone: the arguments of the call
    returned        \* one function alone: what the call returned

collect_vars ==
    <<root_exists, entries, exclude_dirs, replacements, pc, yielded, nix_files,
      next_file, options, reads, result>>

walk_vars == <<w_input, w_table, w_pc, w_lib, w_parser>>

pure_vars == <<call, args, returned>>

vars == <<collect_vars, walk_vars, pure_vars>>

(***************************************************************************)
(* lib.rs collect_options                                                  *)
(***************************************************************************)
\* lib.rs: exclude_paths
RECURSIVE exclude_paths_of(_)
exclude_paths_of(dirs) ==
    IF Len(dirs) = 0 THEN <<>>
    ELSE <<path_join(dir, PathBuf(dirs[1]))>> \o exclude_paths_of(Tail(dirs))

exclude_paths == exclude_paths_of(exclude_dirs)

\* walkdir DirEntry::path
entry_path(e) == path_join(dir, [absolute |-> FALSE, components |-> e.rel])

\* is_hidden that finds no entry hidden
is_hidden_never(e) == FALSE

\* lib.rs is_hidden
is_hidden(e) == starts_with(file_name(entry_path(e)), <<".">>)

\* lib.rs: should_exclude
should_exclude(e) ==
    \E i \in 1..Len(exclude_paths) : path_starts_with(entry_path(e), exclude_paths[i])

\* lib.rs: the entries pushed to nix_files
is_nix_file(e) ==
    ~(\/ is_hidden(e)
      \/ ~e.is_file
      \/ extension(entry_path(e)) # Some(str_nix))

parent(rel) == SubSeq(rel, 1, Len(rel) - 1)

\* WalkDir is depth first: the next entry is a child of the deepest directory
\* already yielded that still has a child to yield; siblings come in any order
walk_candidates ==
    LET open == {e \in entries : e.rel \notin yielded /\ parent(e.rel) \in yielded}
    IN  {e \in open : \A o \in open : Len(o.rel) <= Len(e.rel)}

entry_of(p) == CHOOSE e \in entries : entry_path(e) = p

Running == [status |-> "running", options |-> <<>>]

\* the walk error of a missing root swallowed: the run goes on to return Ok
WalkRootMissing_ignored ==
    /\ pc = "walk"
    /\ ~root_exists
    /\ pc' = "process"
    /\ UNCHANGED <<root_exists, entries, exclude_dirs, replacements, yielded,
                   nix_files, next_file, options, reads, result, walk_vars, pure_vars>>

\* for entry in WalkDir::new(dir): the root is missing, entry? returns the error
WalkRootMissing ==
    /\ pc = "walk"
    /\ ~root_exists
    /\ pc' = "error"
    /\ result' = [status |-> "err", options |-> <<>>]
    /\ UNCHANGED <<root_exists, entries, exclude_dirs, replacements, yielded,
                   nix_files, next_file, options, reads, walk_vars, pure_vars>>

\* the first entry WalkDir yields is the root itself, a directory
WalkRoot ==
    /\ pc = "walk"
    /\ root_exists
    /\ yielded = {}
    /\ yielded' = {<<>>}
    /\ UNCHANGED <<root_exists, entries, exclude_dirs, replacements, pc,
                   nix_files, next_file, options, reads, result, walk_vars, pure_vars>>

\* one iteration of the first loop
WalkEntry ==
    /\ pc = "walk"
    /\ root_exists
    /\ \E e \in walk_candidates :
          /\ yielded' = yielded \cup {e.rel}
          /\ nix_files' = IF ~should_exclude(e) /\ is_nix_file(e)
                          THEN Append(nix_files, entry_path(e))
                          ELSE nix_files
    /\ UNCHANGED <<root_exists, entries, exclude_dirs, replacements, pc,
                   next_file, options, reads, result, walk_vars, pure_vars>>

\* the first loop ends
WalkEnd ==
    /\ pc = "walk"
    /\ root_exists
    /\ yielded # {}
    /\ walk_candidates = {}
    /\ pc' = "process"
    /\ UNCHANGED <<root_exists, entries, exclude_dirs, replacements, yielded,
                   nix_files, next_file, options, reads, result, walk_vars, pure_vars>>

\* the body of the second loop for a file that can be read: the file is parsed
\* and its tree is walked with the shared option list
process_file(file_path, acc, table) ==
    LET e == entry_of(file_path)
    IN  visit_node(file_tree(e.decls), relative_path(file_path, dir), acc, <<>>, table,
                   source_newlines(Len(e.decls)))

\* one iteration of the second loop: the file is read and its tree is walked
ProcessFile ==
    /\ pc = "process"
    /\ next_file <= Len(nix_files)
    /\ LET file_path == nix_files[next_file]
       IN  /\ entry_of(file_path).readable
           /\ reads' = Append(reads, file_path)
           /\ options' = process_file(file_path, options, replacements)
    /\ next_file' = next_file + 1
    /\ UNCHANGED <<root_exists, entries, exclude_dirs, replacements, pc, yielded,
                   nix_files, result, walk_vars, pure_vars>>

\* one iteration of the second loop: fs::read_to_string fails, Err(Io) is returned
ReadFails ==
    /\ pc = "process"
    /\ next_file <= Len(nix_files)
    /\ LET file_path == nix_files[next_file]
       IN  /\ ~entry_of(file_path).readable
           /\ reads' = Append(reads, file_path)
    /\ pc' = "error"
    /\ result' = [status |-> "err", options |-> <<>>]
    /\ UNCHANGED <<root_exists, entries, exclude_dirs, replacements, yielded,
                   nix_files, next_file, options, walk_vars, pure_vars>>

\* the second loop ends: Ok(options)
Return ==
    /\ pc = "process"
    /\ next_file > Len(nix_files)
    /\ pc' = "done"
    /\ result' = [status |-> "ok", options |-> options]
    /\ UNCHANGED <<root_exists, entries, exclude_dirs, replacements, yielded,
                   nix_files, next_file, options, reads, walk_vars, pure_vars>>

\* the declarations of every file of a layout
WithContents(layout) ==
    LET files == {e \in layout : e.is_file}
    IN  { {[rel |-> e.rel, is_file |-> e.is_file, readable |-> e.readable,
            decls |-> IF e.is_file THEN c[e] ELSE <<>>] : e \in layout}
          : c \in [files -> FileContents] }

NoWalkInput == [paths |-> <<>>, shape |-> "none", desc |-> <<>>, context |-> "plain"]

Init ==
    /\ root_exists \in BOOLEAN
    /\ entries \in IF root_exists
                   THEN UNION {WithContents(layout) : layout \in Layouts}
                   ELSE {{}}
    /\ exclude_dirs \in ExcludeChoices
    /\ replacements \in Tables
    /\ pc = "walk"
    /\ yielded = {}
    /\ nix_files = <<>>
    /\ next_file = 1
    /\ options = <<>>
    /\ reads = <<>>
    /\ result = Running
    /\ w_input = NoWalkInput
    /\ w_table = <<>>
    /\ w_pc = "off"
    /\ w_lib = <<>>
    /\ w_parser = <<>>
    /\ call = "none"
    /\ args = <<>>
    /\ returned = <<>>

Next ==
    \/ WalkRootMissing
    \/ WalkRoot
    \/ WalkEntry
    \/ WalkEnd
    \/ ProcessFile
    \/ ReadFails
    \/ Return

Spec == Init /\ [][Next]_vars

(***************************************************************************)
(* The tree walk alone, on one file                                        *)
(***************************************************************************)
\* the attribute paths of the model: identifiers, interpolations with and
\* without blanks inside the braces, a quoted key
WalkPaths ==
    { <<Ident(<<"a">>)>>,
      <<Ident(<<"a">>), Ident(<<"b">>)>>,
      <<Dynamic(<<"$", "{", "k", "}">>)>>,
      <<Dynamic(<<"$", "{", " ", "k", " ", "}">>)>>,
      <<Dynamic(<<"$", "{", "j", "}">>)>>,
      <<Str(<<"\"", "s", "\"">>)>>,
      <<Ident(<<"a">>), Dynamic(<<"$", "{", "k", "}">>)>> }

\* the description literals of the model; the last two are '' d '' and
\* "a \"b\"", whose content ends in an escaped quote
WalkDescs ==
    { <<"\"", "d", "\"">>,
      <<"'", "'", "d", "'", "'">>,
      <<"\"", "a", " ", "\\", "\"", "b", "\\", "\"", "\"">>,
      <<"\"", "$", "{", "k", "}", "\"">>,
      <<"\"", "a", " ", "$", "{", "j", "}", " ", "b", "\"">>,
      <<"\"", "$", "{", " ", "k", " ", "}", "\"">> }

\* the substitution tables of the model, in every iteration order
WalkTables ==
    { <<>>,
      << <<<<"k">>, <<"s", "n">>>> >>,
      << <<<<"k">>, <<"s", "n">>>>, <<<<"j">>, <<"x">>>> >>,
      << <<<<"j">>, <<"x">>>>, <<<<"k">>, <<"s", "n">>>> >> }

ShapesWithString ==
    {"enable", "option", "option_description", "bare_enable", "other_call", "plain"}
ShapesWithoutString ==
    {"enable_nostring", "option_empty", "option_noset", "option_type", "option_default",
     "option_example", "bare_option", "arg_select", "near_name", "lambda", "error",
     "option_default_path", "option_longer_key", "option_nested_pair",
     "with_set", "with_call", "with_bound"}

\* what surrounds the declaration in its file: nothing; the leftovers of a
\* syntax error (NODE_ERROR nodes) before and after it; a module function
\* around the attribute set
WalkContexts == {"plain", "broken", "module"}

\* the declarations walked: every shape under one to MaxNesting assignments in
\* a plain file, and under fewer than MaxNesting assignments in the others
WalkInputs ==
    LET nestings(c) ==
            SeqsUpTo(WalkPaths, IF c = "plain" THEN MaxNesting ELSE MaxNesting - 1) \ {<<>>}
    IN  UNION {
            { [paths |-> ps, shape |-> sh, desc |-> d, context |-> c] :
                ps \in nestings(c), sh \in ShapesWithString, d \in WalkDescs }
            \cup
            { [paths |-> ps, shape |-> sh, desc |-> <<>>, context |-> c] :
                ps \in nestings(c), sh \in ShapesWithoutString }
            : c \in WalkContexts }

\* the attribute set that holds the assignments given; for the shape with_set
\* the set that holds the declaration itself is the body of  with lib; { ... }
scoped_set(input, level, assignments) ==
    IF input.shape = "with_set" /\ level = Len(input.paths)
    THEN With(Ident(str_lib), AttrSet(assignments))
    ELSE AttrSet(assignments)

\* paths[i] = { paths[i+1] = { ... = declaration; }; };  one assignment a line
RECURSIVE nested_assignment(_, _, _)
nested_assignment(input, i, start) ==
    AttrpathValue(
        AttrPath(input.paths[i]),
        IF i = Len(input.paths)
        THEN DeclValue(input.shape, input.desc, start)
        ELSE scoped_set(input, i + 1, <<nested_assignment(input, i + 1, start)>>))

walk_tree(input) ==
    LET decl == nested_assignment(input, 1, decl_start(Len(input.paths)))
        stray == Node("NODE_ERROR", <<>>, <<"=">>, 0)
        bad_value == AttrpathValue(AttrPath(<<Ident(<<"z">>)>>),
                                   Node("NODE_ERROR", <<>>, <<>>, 0))
        pattern == Node("NODE_PATTERN", <<Ident(str_lib)>>,
                        <<"{", " ", "l", "i", "b", " ", "}">>, 0)
        plain == scoped_set(input, 1, <<decl>>)
        broken == scoped_set(input, 1, <<stray, decl, bad_value>>)
    IN  IF input.context = "broken" THEN Node("NODE_ROOT", <<broken>>, broken.text, 0)
        ELSE IF input.context = "module"
        THEN Node("NODE_ROOT",
                  <<Node("NODE_LAMBDA", <<pattern, plain>>,
                         pattern.text \o <<":", " ">> \o plain.text, 0)>>,
                  <<>>, 0)
        ELSE Node("NODE_ROOT", <<plain>>, plain.text, 0)

walk_file == <<"f", ".", "n", "i", "x">>

\* lib.rs visit_node on the tree of one file, from an empty option list
RunLib ==
    /\ w_pc \in {"ready", "parser"}
    /\ w_lib' = visit_node(walk_tree(w_input), walk_file, <<>>, <<>>, w_table,
                           source_newlines(Len(w_input.paths)))
    /\ w_pc' = IF w_pc = "ready" THEN "lib" ELSE "both"
    /\ UNCHANGED <<w_input, w_table, w_parser, collect_vars, pure_vars>>

\* parser.rs visit_node on the tree of one file
RunParser ==
    /\ w_pc \in {"ready", "lib"}
    /\ w_parser' = parser_visit_node(walk_tree(w_input), walk_file, <<>>, w_table,
                                     source_newlines(Len(w_input.paths)))
    /\ w_pc' = IF w_pc = "ready" THEN "parser" ELSE "both"
    /\ UNCHANGED <<w_input, w_table, w_lib, collect_vars, pure_vars>>

InitWalk ==
    /\ root_exists = TRUE
    /\ entries = {}
    /\ exclude_dirs = <<>>
    /\ replacements = <<>>
    /\ pc = "off"
    /\ yielded = {}
    /\ nix_files = <<>>
    /\ next_file = 1
    /\ options = <<>>
    /\ reads = <<>>
    /\ result = Running
    /\ w_input \in WalkInputs
    /\ w_table \in WalkTables
    /\ w_pc = "ready"
    /\ w_lib = <<>>
    /\ w_parser = <<>>
    /\ call = "none"
    /\ args = <<>>
    /\ returned = <<>>

NextWalk ==
    \/ RunLib
    \/ RunParser

SpecWalk == InitWalk /\ [][NextWalk]_vars

lib_done == w_pc \in {"lib", "both"}
parser_done == w_pc \in {"parser", "both"}

(***************************************************************************)
(* One function alone, on its arguments (specification SpecFunctions)      *)
(***************************************************************************)
\* the texts given to custom_dedent: a first line and up to MaxLines later lines
DedentInputs ==
    LET first_lines == {<<"A">>, <<" ", "A">>}
        later_lines ==
            { <<>>, <<"B">>, <<" ", "B">>, <<" ", " ", "B">>, <<" ", " ", " ", "C">>,
              <<" ", " ", " ", " ">>, <<"\t">> }
    IN  { [text |-> first \o join([i \in 1..Len(later) |-> <<"\n">> \o later[i]], <<>>)] :
            first \in first_lines, later \in SeqsUpTo(later_lines, MaxLines) }

\* the admonition blocks of the model: blanks after the opening fence, the
\* kind, the text up to the closing fence
AdmonitionBlocks ==
    { [blanks |-> <<>>, kind |-> <<"w","a","r","n","i","n","g">>,
       content |-> <<"\n", "w", ".", "\n">>],
      [blanks |-> <<" ">>, kind |-> <<"n","o","t","e">>,
       content |-> <<"\n", "a", "\n", " ", "b", "\n">>],
      [blanks |-> <<>>, kind |-> <<"t","i","p">>, content |-> <<" ", "t", " ">>],
      [blanks |-> <<>>, kind |-> <<"i","m","p","o","r","t","a","n","t">>,
       content |-> <<"\n", Backtick, Backtick, Backtick, "\n", "c", "\n",
                     Backtick, Backtick, Backtick, "\n">>],
      [blanks |-> <<>>, kind |-> <<"n","o","t","e">>, content |-> <<>>],
      [blanks |-> <<>>, kind |-> <<"c","a","u","t","i","o","n">>,
       content |-> <<"\n", "c", "\n">>],
      [blanks |-> <<>>, kind |-> <<"N","o","t","e">>, content |-> <<"\n", "n", "\n">>],
      [blanks |-> <<>>, kind |-> <<"T","I","P">>, content |-> <<"\n", "t", "\n">>],
      [blanks |-> <<>>, kind |-> <<"i","n","f","o">>, content |-> <<"\n", "i", "\n">>] }

\* the texts given to convert_admonitions: up to MaxBlocks blocks, each followed
\* by outside text, after a leading outside text
AdmonitionInputs ==
    LET outside == {<<>>, <<"p", "\n">>, <<":">>}
        block_text(b) ==
            fence \o b.blanks \o <<"{", ".">> \o b.kind \o <<"}">> \o b.content \o fence
    IN  { [pre |-> pre, blocks |-> bs, post |-> post,
           text |-> pre \o join([i \in 1..Len(bs) |-> block_text(bs[i]) \o post], <<>>)] :
            pre \in outside, post \in outside,
            bs \in SeqsUpTo(AdmonitionBlocks, MaxBlocks) }

\* the descriptions given to process_description: the texts of the two other
\* functions and the texts of up to MaxPieces pieces with placeholders and
\* directives; the substitution tables
NormalizeInputs ==
    LET pieces ==
            { <<"x">>, <<" ">>, <<"\n">>, <<"$", "{", "k", "}">>, <<"$", "{", "j", "}">>,
              <<"{", "a", "}">>, <<"{", "b", "}", Backtick, "c", Backtick>> }
        tables ==
            { <<>>,
              << <<<<"k">>, <<"v">>>> >>,
              << <<<<"k">>, <<"$", "{", "j", "}">>>>, <<<<"j">>, <<"x">>>> >> }
    IN  { [text |-> t, table |-> tb] :
            t \in {i.text : i \in DedentInputs} \cup {i.text : i \in AdmonitionInputs}
                  \cup {join(ps, <<>>) : ps \in SeqsUpTo(pieces, MaxPieces)},
            tb \in tables }

\* the option records given to filter_options and generate_doc
DocOptions ==
    { [name |-> <<"a">>, description |-> Some(<<"F", "o", "o">>),
       nix_type |-> NixType("Bool", <<>>), default_value |-> Some(str_false),
       file_path |-> <<"f">>, line_number |-> 1],
      [name |-> <<"a", ".", "b">>, description |-> None,
       nix_type |-> NixType("Str", <<>>), default_value |-> None,
       file_path |-> <<"f">>, line_number |-> 2],
      [name |-> <<"B">>, description |-> Some(<<"a", " ", "b">>),
       nix_type |-> NixType("Unknown", str_any), default_value |-> Some(<<"x">>),
       file_path |-> <<"g">>, line_number |-> 1],
      [name |-> <<"a">>, description |-> Some(<<"b", "a", "r">>),
       nix_type |-> NixType("Int", <<>>), default_value |-> None,
       file_path |-> <<"g">>, line_number |-> 2],
      [name |-> <<"a", "b">>, description |-> None,
       nix_type |-> NixType("Bool", <<>>), default_value |-> Some(<<"y">>),
       file_path |-> <<"g">>, line_number |-> 3] }

\* the arguments of generate_doc: up to MaxOptions records, a format, the flag
GenerateInputs ==
    { [options |-> os, format |-> f, sorted |-> srt] :
        os \in SeqsUpTo(DocOptions, MaxOptions),
        f \in {"Markdown", "Json", "Html", "Csv"}, srt \in BOOLEAN }

\* the arguments of filter_options: up to MaxOptions records and the filters
FilterInputs ==
    { [options |-> os,
       cli |-> [prefix |-> p, type_filter |-> t, search |-> q,
                has_default |-> hd, has_description |-> hs]] :
        os \in SeqsUpTo(DocOptions, MaxOptions),
        p \in {None, Some(<<"a">>), Some(<<"a", ".">>)},
        t \in {None, Some(<<"B", "O", "O", "L">>), Some(<<"i", "n">>)},
        q \in {None, Some(<<"F", "O", "O">>), Some(<<"b">>)},
        hd \in BOOLEAN, hs \in BOOLEAN }

\* the values given to clean_literal_expr: blanks, a marker or none, an
\* argument, blanks
LiteralInputs ==
    LET markers == {<<>>, literalExpression \o <<" ">>, lib_literalExpression \o <<" ">>}
        arguments ==
            { <<"'", "'", "a", "'", "'">>,
              <<"'", "'", "\n", " ", "a", "\n", "'", "'">>,
              <<"'", "'", "a", "\"", "b", "\"", "'", "'">>,
              <<"\"", "b", "\"">>,
              <<"\"", " ", "b", " ", "\"">>,
              <<"\"", "i", "t", "'", "'", "s", "\"">>,
              <<"'", "'", "'", "'">>,
              <<"\"", "\"">>,
              <<"x">>,
              <<"1">> }
        blanks == {<<>>, <<" ">>, <<"\n">>}
    IN  { [text |-> lead \o m \o a \o trail] :
            lead \in blanks, m \in markers, a \in arguments, trail \in blanks }

\* the type texts given to from_nix_str: the primitive names, texts that are
\* no exact primitive name, wrapper names alone and together
TypeInputs ==
    { [text |-> x] : x \in
        { <<"t","y","p","e","s",".","b","o","o","l">>,
          <<"t","y","p","e","s",".","i","n","t">>,
          <<"t","y","p","e","s",".","i","n","t","e","g","e","r">>,
          <<"t","y","p","e","s",".","f","l","o","a","t">>,
          <<"t","y","p","e","s",".","s","t","r">>,
          <<"t","y","p","e","s",".","s","t","r","i","n","g">>,
          <<"t","y","p","e","s",".","p","a","t","h">>,
          <<"t","y","p","e","s",".","a","t","t","r","s">>,
          <<"t","y","p","e","s",".","l","i","s","t","O","f">>,
          <<"l","i","b",".","t","y","p","e","s",".","s","t","r">>,
          <<"t","y","p","e","s",".","b","o","o","l"," ">>,
          <<"t","y","p","e","s",".","l","i","s","t","O","f"," ","t","y","p","e","s",".","s","t","r">>,
          <<"a","n","y">>,
          <<>>,
          <<"t","y","p","e","s",".","e","n","u","m"," ","["," ","\"","a","\""," ","]">>,
          <<"l","i","b",".","t","y","p","e","s",".","e","n","u","m"," ","x">>,
          <<"t","y","p","e","s",".","o","p","t","i","o","n">>,
          <<"t","y","p","e","s",".","e","i","t","h","e","r">>,
          <<"t","y","p","e","s",".","o","p","t","i","o","n"," ","t","y","p","e","s",".","e","n","u","m">>,
          <<"t","y","p","e","s",".","e","i","t","h","e","r"," ","t","y","p","e","s",".","o","p","t","i","o","n">>,
          <<"t","y","p","e","s",".","e","i","t","h","e","r"," ","["," ","t","y","p","e","s",".","e","n","u","m"," ","]">>,
          <<"t","y","p","e","s",".","n","u","l","l","O","r"," ","t","y","p","e","s",".","s","t","r">>,
          <<"t","y","p","e","s",".","s","e","t">> } }

\* the texts given to clean_description: up to MaxPieces pieces, among them
\* role tags, code spans and the two together; no admonition fence
CleanInputs ==
    LET pieces ==
            { <<"x">>, <<"{", "a", "}">>, <<Backtick, "c", Backtick>>,
              <<"{", "b", "}", Backtick, "c", Backtick>>, <<Backtick>> }
    IN  { [text |-> join(ps, <<>>)] : ps \in SeqsUpTo(pieces, MaxPieces) }

\* utils.rs custom_dedent is called
CallCustomDedent ==
    /\ call = "custom_dedent"
    /\ ~returned.some
    /\ returned' = Some(custom_dedent(args.text))
    /\ UNCHANGED <<call, args, collect_vars, walk_vars>>

\* utils.rs convert_admonitions is called
CallConvertAdmonitions ==
    /\ call = "convert_admonitions"
    /\ ~returned.some
    /\ returned' = Some(convert_admonitions(args.text))
    /\ UNCHANGED <<call, args, collect_vars, walk_vars>>

\* parser.rs process_description is called
CallProcessDescription ==
    /\ call = "process_description"
    /\ ~returned.some
    /\ returned' = Some(process_description(args.text, args.table))
    /\ UNCHANGED <<call, args, collect_vars, walk_vars>>

\* utils.rs clean_literal_expr is called
CallCleanLiteralExpr ==
    /\ call = "clean_literal_expr"
    /\ ~returned.some
    /\ returned' = Some(clean_literal_expr(args.text))
    /\ UNCHANGED <<call, args, collect_vars, walk_vars>>

\* types.rs from_nix_str is called and the type it gives is displayed
CallFromNixStr ==
    /\ call = "from_nix_str"
    /\ ~returned.some
    /\ returned' = Some([type |-> from_nix_str(args.text),
                         display |-> to_string(from_nix_str(args.text))])
    /\ UNCHANGED <<call, args, collect_vars, walk_vars>>

\* utils.rs clean_description is called
CallCleanDescription ==
    /\ call = "clean_description"
    /\ ~returned.some
    /\ returned' = Some(clean_description(args.text))
    /\ UNCHANGED <<call, args, collect_vars, walk_vars>>

\* lib.rs generate_doc is called; the slice is borrowed, args stays as it is
CallGenerateDoc ==
    /\ call = "generate_doc"
    /\ ~returned.some
    /\ returned' = Some(generate_doc(args.options, args.format, args.sorted))
    /\ UNCHANGED <<call, args, collect_vars, walk_vars>>

\* lib.rs filter_options is called; the slice is borrowed, args stays as it is
CallFilterOptions ==
    /\ call = "filter_options"
    /\ ~returned.some
    /\ returned' = Some(filter_options(args.options, args.cli))
    /\ UNCHANGED <<call, args, collect_vars, walk_vars>>

InitFunctions ==
    /\ root_exists = TRUE
    /\ entries = {}
    /\ exclude_dirs = <<>>
    /\ replacements = <<>>
    /\ pc = "off"
    /\ yielded = {}
    /\ nix_files = <<>>
    /\ next_file = 1
    /\ options = <<>>
    /\ reads = <<>>
    /\ result = Running
    /\ w_input = NoWalkInput
    /\ w_table = <<>>
    /\ w_pc = "off"
    /\ w_lib = <<>>
    /\ w_parser = <<>>
    /\ \/ call = "custom_dedent" /\ args \in DedentInputs
       \/ call = "convert_admonitions" /\ args \in AdmonitionInputs
       \/ call = "process_description" /\ args \in NormalizeInputs
       \/ call = "clean_literal_expr" /\ args \in LiteralInputs
       \/ call = "from_nix_str" /\ args \in TypeInputs
       \/ call = "clean_description" /\ args \in CleanInputs
       \/ call = "generate_doc" /\ args \in GenerateInputs
       \/ call = "filter_options" /\ args \in FilterInputs
    /\ returned = None

NextFunctions ==
    \/ CallCustomDedent
    \/ CallConvertAdmonitions
    \/ CallProcessDescription
    \/ CallCleanLiteralExpr
    \/ CallFromNixStr
    \/ CallCleanDescription
    \/ CallGenerateDoc
    \/ CallFilterOptions

SpecFunctions == InitFunctions /\ [][NextFunctions]_vars

(***************************************************************************)
(* Properties of collect_options (specification Spec)                      *)
(***************************************************************************)
\* the name a declaration of a generated file resolves to
decl_name(d) == parse_attrpath(AttrPath(d.path), replacements)

\* the entries whose content has been read
read_entries == {e \in entries : \E i \in 1..Len(reads) : reads[i] = entry_path(e)}

entry_file_path(e) == relative_path(entry_path(e), dir)

\* the record lib.rs builds from the i-th declaration of a file, taken alone
decl_record(e, i) ==
    visit_node(Root(<<decl_entries(e.decls, 1)[i]>>), entry_file_path(e), <<>>, <<>>,
               replacements, source_newlines(Len(e.decls)))[1]

\* the positions in a file of the declarations of a name
decl_positions(e, name) == {i \in 1..Len(e.decls) : decl_name(e.decls[i]) = name}

Max(S) == CHOOSE m \in S : \A x \in S : x <= m

\* C1: after collect_options returns successfully, no two records of the
\* result have the same name.
C1_UniqueNames ==
    result.status = "ok" =>
        \A i, j \in 1..Len(result.options) :
            i # j => result.options[i].name # result.options[j].name

\* C1 witness: a successful run over two files that declare a common name, one
\* of them declaring it twice.
C1_Witness ==
    /\ result.status = "ok"
    /\ \E e1, e2 \in read_entries :
          /\ e1 # e2
          /\ \E i, j \in 1..Len(e1.decls) :
                /\ i # j
                /\ decl_name(e1.decls[i]) = decl_name(e1.decls[j])
                /\ decl_positions(e2, decl_name(e1.decls[i])) # {}

\* C2: when one file declares the same resolved name more than once, the
\* record of that file's walk for the name is the one built from the last of
\* these declarations in source order (description, type, default, line).
C2_LastDeclarationWins ==
    \A k \in 1..Len(options) :
        \A e \in read_entries :
            entry_file_path(e) = options[k].file_path =>
                /\ decl_positions(e, options[k].name) # {}
                /\ options[k] = decl_record(e, Max(decl_positions(e, options[k].name)))

\* C2 witness: a file that declares one name twice, with different
\* descriptions, has been walked and its record is in the list.
C2_Witness ==
    \E k \in 1..Len(options) :
        \E e \in read_entries :
            /\ entry_file_path(e) = options[k].file_path
            /\ \E i, j \in decl_positions(e, options[k].name) :
                  /\ i < j
                  /\ decl_record(e, i).description # decl_record(e, j).description

\* the first file read, in processing order, that declares the name
first_declaring(name) ==
    LET at == {i \in 1..Len(reads) : decl_positions(entry_of(reads[i]), name) # {}}
    IN  entry_of(reads[CHOOSE i \in at : \A j \in at : i <= j])

\* C3: when two different files declare the same resolved name, the record
\* that survives the whole collection is the one from the file processed first.
C3_FirstFileWins ==
    result.status = "ok" =>
        \A k \in 1..Len(result.options) :
            result.options[k].file_path
                = entry_file_path(first_declaring(result.options[k].name))

\* C9: records come only from entries that are regular files, have the
\* extension nix, have a name that does not start with '.', and lie under no
\* exclusion path.
C9_OnlyEligibleFiles ==
    \A k \in 1..Len(options) :
        \E e \in entries :
            /\ entry_file_path(e) = options[k].file_path
            /\ e.is_file
            /\ ends_with(e.rel[Len(e.rel)], <<".", "n", "i", "x">>)
            /\ e.rel[Len(e.rel)][1] # "."
            /\ \A i \in 1..Len(exclude_dirs) :
                  ~path_starts_with(entry_path(e), path_join(dir, PathBuf(exclude_dirs[i])))

\* C9 witness: a successful run that returns records, over a tree with a
\* hidden .nix file that holds declarations.
C9_Witness ==
    /\ result.status = "ok"
    /\ Len(result.options) > 0
    /\ \E e \in entries :
          /\ e.is_file
          /\ e.rel[Len(e.rel)][1] = "."
          /\ Len(e.decls) > 0

\* C10: when the root directory does not exist, collect_options returns an
\* error, no file has been read and no record is returned.
C10_MissingRootFails ==
    ~root_exists =>
        /\ pc \in {"walk", "error"}
        /\ pc = "error" => result.status = "err"
        /\ result.options = <<>>
        /\ reads = <<>>

\* C10 witness: collect_options has returned for a missing root.
C10_Witness == ~root_exists /\ pc = "error" /\ result.status = "err"

\* C11: when a collected file cannot be read as text, the run still returns
\* success; the unreadable file contributes no record and every name declared
\* in a readable collected file has a record in the result.
C11_UnreadableFileSkipped ==
    (pc \in {"done", "error"} /\ \E i \in 1..Len(nix_files) : ~entry_of(nix_files[i]).readable) =>
        /\ result.status = "ok"
        /\ \A i \in 1..Len(nix_files) :
              LET e == entry_of(nix_files[i])
              IN  IF e.readable
                  THEN \A d \in 1..Len(e.decls) :
                           \E k \in 1..Len(result.options) :
                               result.options[k].name = decl_name(e.decls[d])
                  ELSE \A k \in 1..Len(result.options) :
                           result.options[k].file_path # entry_file_path(e)

\* the text of an entry's path and of an exclusion path: a relative exclusion
\* path is joined to the root /r
entry_text(e) == <<"/", "r", "/">> \o join(e.rel, <<"/">>)
exclusion_text(x) == IF starts_with(x, <<"/">>) THEN x ELSE <<"/", "r", "/">> \o x

\* the exclusion path is a prefix of the entry's path by whole components
lies_under(e, x) ==
    \/ entry_text(e) = exclusion_text(x)
    \/ starts_with(entry_text(e), exclusion_text(x) \o <<"/">>)

\* C26: once the directory walk has ended, a regular, non-hidden .nix file is
\* missing from the files to process exactly when some exclusion path is a
\* prefix of its path by whole components.
C26_ExclusionByComponents ==
    pc \in {"process", "done"} =>
        \A e \in entries :
            (/\ e.is_file
             /\ ends_with(e.rel[Len(e.rel)], <<".", "n", "i", "x">>)
             /\ e.rel[Len(e.rel)][1] # ".") =>
                ((\A k \in 1..Len(nix_files) : nix_files[k] # entry_path(e))
                    <=> \E i \in 1..Len(exclude_dirs) : lies_under(e, exclude_dirs[i]))

\* C26 witness: a run with an exclusion path ex has left out ex/x.nix and has
\* read ex2/x.nix.
C26_Witness ==
    /\ pc = "done"
    /\ Len(exclude_dirs) > 0
    /\ Len(reads) = 1
    /\ relative_path(reads[1], dir) = <<"e", "x", "2", "/", "x", ".", "n", "i", "x">>
    /\ \E e \in entries : e.rel = <<name_ex, name_x_nix>>

\* the option list the second loop leaves when it takes the files in the
\* order given
RECURSIVE options_in_order(_, _)
options_in_order(files, acc) ==
    IF Len(files) = 0 THEN acc
    ELSE options_in_order(Tail(files), process_file(files[1], acc, replacements))

\* C28: the records returned do not depend on the order in which the files
\* are processed: taking the same files in any other order gives the same set
\* of records.
C28_OrderIndependent ==
    pc = "done" =>
        \A p \in [1..Len(nix_files) -> 1..Len(nix_files)] :
            (\A i, j \in 1..Len(nix_files) : i # j => p[i] # p[j]) =>
                LET other == options_in_order([i \in 1..Len(nix_files) |-> nix_files[p[i]]],
                                              <<>>)
                IN  {other[k] : k \in 1..Len(other)}
                        = {result.options[k] : k \in 1..Len(result.options)}

\* C30: no record comes from a file whose path below the root has a component
\* that starts with '.', be it the file's name or a directory's.
C30_NoRecordBelowHiddenName ==
    \A k \in 1..Len(options) :
        /\ ~starts_with(options[k].file_path, <<".">>)
        /\ ~contains(options[k].file_path, <<"/", ".">>)

(***************************************************************************)
(* Properties of the tree walk (specification SpecWalk)                    *)
(***************************************************************************)
\* the text ${name}
placeholder(name) == <<"$", "{">> \o name \o <<"}">>

\* the text between "${" and the closing "}" of an interpolation
inner_name(text) == SubSeq(text, 3, Len(text) - 1)

\* the first placeholder ${...} of a text, <<>> when it has none
first_placeholder(text) ==
    LET open == find_from(text, <<"$", "{">>, 1)
        close == IF open = 0 THEN 0 ELSE find_from(text, <<"}">>, open)
    IN  IF open > 0 /\ close > 0 THEN SubSeq(text, open, close) ELSE <<>>

input_segments ==
    UNION {{w_input.paths[i][j] : j \in 1..Len(w_input.paths[i])} :
              i \in 1..Len(w_input.paths)}

\* the records of both walks that have run
walk_records ==
    {w_lib[i] : i \in 1..Len(w_lib)} \cup {w_parser[i] : i \in 1..Len(w_parser)}

\* C4: the record's name equals the resolved attribute paths of all enclosing
\* assignments, outermost first, joined by '.'.
C4_NameIsJoinedPaths ==
    /\ \A i \in 1..Len(w_lib) :
          w_lib[i].name =
              join([n \in 1..Len(w_input.paths) |->
                        parse_attrpath(AttrPath(w_input.paths[n]), w_table)],
                   <<".">>)
    /\ \A i \in 1..Len(w_parser) :
          w_parser[i].name =
              join([n \in 1..Len(w_input.paths) |->
                        parser_parse_attrpath(AttrPath(w_input.paths[n]), w_table)],
                   <<".">>)

\* C5: every record emitted by the tree walk has a non-empty name made of
\* non-empty segments: no leading, trailing or doubled '.'.
C5_NameNonEmptySegments ==
    \A r \in walk_records :
        /\ Len(r.name) > 0
        /\ r.name[1] # "."
        /\ r.name[Len(r.name)] # "."
        /\ ~contains(r.name, <<".", ".">>)

C7_KnownPlaceholderReplaced ==
    \A r \in walk_records :
        \A i \in 1..Len(w_table) :
            LET k == w_table[i][1]
                v == w_table[i][2]
            IN  /\ ~contains(r.name, placeholder(k))
                /\ r.description.some => ~contains(r.description.v, placeholder(k))
                /\ (\E seg \in input_segments : seg.text = placeholder(k))
                      => contains(r.name, v)
                /\ (r.description.some /\ contains(w_input.desc, placeholder(k)))
                      => contains(r.description.v, v)
                /\ (r.description.some /\ w_input.desc = <<"\"">> \o placeholder(k) \o <<"\"">>)
                      => r.description.v = v
                /\ w_input.paths = << <<Dynamic(placeholder(k))>> >> => r.name = v

\* C7 witness: both walks have emitted a record for a declaration whose path
\* and description hold the placeholder of a key of the table.
C7_Witness ==
    /\ w_pc = "both"
    /\ Len(w_lib) = 1
    /\ Len(w_parser) = 1
    /\ w_lib[1].description.some
    /\ \E i \in 1..Len(w_table) :
          /\ \E seg \in input_segments : seg.text = placeholder(w_table[i][1])
          /\ contains(w_input.desc, placeholder(w_table[i][1]))

\* C8: a placeholder whose inner name is not a key of the substitution table
\* is left unchanged, character for character, as a path segment of the option
\* name and inside the description.
C8_UnknownPlaceholderVerbatim ==
    \A r \in walk_records :
        /\ \A seg \in input_segments :
              (seg.kind = "NODE_DYNAMIC" /\ ~map_contains(w_table, inner_name(seg.text)))
                  => contains(r.name, seg.text)
        /\ (/\ r.description.some
            /\ first_placeholder(w_input.desc) # <<>>
            /\ ~map_contains(w_table, inner_name(first_placeholder(w_input.desc))))
              => contains(r.description.v, first_placeholder(w_input.desc))

\* the shapes of a declaration value that are no option declaration
NoOptionShapes == {"plain", "other_call", "near_name", "lambda", "error"}

\* C12: the walk of a tree with NODE_ERROR nodes, unrecognized node kinds or
\* unrecognized call names gives a record list: nothing for an unrecognized
\* value, and for a declaration the same records with or without the
\* malformed nodes around it.
C12_WalkToleratesMalformed ==
    LET plain == [w_input EXCEPT !.context = "plain"]
        newlines == source_newlines(Len(w_input.paths))
    IN  /\ lib_done =>
              /\ w_lib = visit_node(walk_tree(plain), walk_file, <<>>, <<>>, w_table,
                                    newlines)
              /\ w_input.shape \in NoOptionShapes => w_lib = <<>>
        /\ parser_done =>
              /\ w_parser = parser_visit_node(walk_tree(plain), walk_file, <<>>, w_table,
                                              newlines)
              /\ w_input.shape \in NoOptionShapes => w_parser = <<>>

\* C12 witness: both walks have run over a file with the leftovers of a syntax
\* error around a declaration and have emitted its record.
C12_Witness ==
    /\ w_pc = "both"
    /\ w_input.context = "broken"
    /\ Len(w_lib) = 1
    /\ Len(w_parser) = 1


\* the keys of the argument set of an mkOption declaration of the model
OptionShapeKeys ==
    [option |-> {key_type, key_description, key_default},
     option_empty |-> {},
     option_noset |-> {},
     option_type |-> {key_type},
     option_description |-> {key_description},
     option_default |-> {key_default},
     option_example |-> {key_example}]

OptionCallShapes ==
    DOMAIN OptionShapeKeys \cup {"enable", "enable_nostring", "bare_enable", "bare_option"}
OtherCallShapes == {"other_call", "arg_select", "near_name"}

\* C20: a call yields a record exactly when the function it calls is
\* mkEnableOption or mkOption, qualified or bare; a call of another function
\* yields none, also when its argument is a select chain ending in mkOption.
C20_CalleeDecides ==
    w_input.shape \in OptionCallShapes \cup OtherCallShapes =>
        /\ lib_done => (Len(w_lib) = 1 <=> w_input.shape \in OptionCallShapes)
        /\ lib_done => Len(w_lib) <= 1
        /\ parser_done => (Len(w_parser) = 1 <=> w_input.shape \in OptionCallShapes)
        /\ parser_done => Len(w_parser) <= 1

\* C25: the line_number of every record is at least 1 and is one more than
\* the number of newline characters of the source text before the first byte
\* of the declaration's call.
C25_LineOfCall ==
    LET call_start == decl_start(Len(w_input.paths))
        before == {o \in source_newlines(Len(w_input.paths)) : o < call_start}
    IN  \A r \in walk_records :
            r.line_number >= 1 /\ r.line_number = Cardinality(before) + 1

\* C25 witness: both walks have recorded a call on the third line of its file,
\* inside an assignment that starts on the second.
C25_Witness ==
    /\ w_pc = "both"
    /\ Len(w_input.paths) = 2
    /\ Len(w_lib) = 1
    /\ Len(w_parser) = 1
    /\ w_lib[1].line_number = 3
    /\ w_parser[1].line_number = 3

\* C27: for an assignment whose value is  with E; B  the walk goes into B
\* alone, with the prefix as it is: a declaration in the set B, and B when it is
\* itself the call, give the record they give without the scope, and nothing
\* inside E gives a record.
C27_ScopedExpression ==
    LET unscoped == [w_input EXCEPT !.shape = "enable", !.desc = <<"\"", "d", "\"">>]
        newlines == source_newlines(Len(w_input.paths))
        in_body == \/ w_input.shape = "with_call"
                   \/ w_input.shape = "with_set" /\ Len(w_input.paths) >= 2
    IN  /\ (lib_done /\ in_body) =>
               w_lib = visit_node(walk_tree(unscoped), walk_file, <<>>, <<>>, w_table,
                                  newlines)
        /\ (parser_done /\ in_body) =>
               w_parser = parser_visit_node(walk_tree(unscoped), walk_file, <<>>, w_table,
                                            newlines)
        /\ (lib_done /\ w_input.shape = "with_bound") => w_lib = <<>>
        /\ (parser_done /\ w_input.shape = "with_bound") => w_parser = <<>>

\* the content of a string literal: the text without its opening and closing
\* delimiter, '' or a double quote
literal_content(text) ==
    IF starts_with(text, <<"'", "'">>) THEN SubSeq(text, 3, Len(text) - 2)
    ELSE SubSeq(text, 2, Len(text) - 1)

\* C29: the description of a record is the normalized content of the
\* description literal, the literal without its own opening and closing
\* delimiter; quote characters at the start or end of the content are kept.
C29_DescriptionKeepsContentQuotes ==
    w_input.shape \in {"enable", "option", "option_description", "bare_enable"} =>
        /\ \A i \in 1..Len(w_lib) :
              w_lib[i].description =
                  Some(fold_replacements(literal_content(w_input.desc), w_table))
        /\ \A i \in 1..Len(w_parser) :
              w_parser[i].description =
                  Some(process_description(literal_content(w_input.desc), w_table))

\* the mkOption declarations of the model whose argument set has one pair
\* that is no direct pair of a recognized key: default.f = "v", defaults = "v",
\* x = { default = "v"; }
UnrecognizedPairShapes == {"option_default_path", "option_longer_key", "option_nested_pair"}

\* C21: in an mkOption argument set a direct pair whose key is exactly type,
\* description, default or example sets its field; a pair with any other key,
\* a key path that only starts with such a name, or a pair nested inside a
\* value changes no field of the record.
C21_OnlyDirectRecognizedKeys ==
    /\ (lib_done /\ w_input.shape = "option_default") =>
           Len(w_lib) = 1 /\ w_lib[1].default_value = Some(<<"\"", "v", "\"">>)
    /\ (parser_done /\ w_input.shape = "option_example") =>
           Len(w_parser) = 1 /\ w_parser[1].example.some
    /\ w_input.shape \in UnrecognizedPairShapes =>
           LET empty == [w_input EXCEPT !.shape = "option_empty"]
               newlines == source_newlines(Len(w_input.paths))
           IN  /\ lib_done =>
                     w_lib = visit_node(walk_tree(empty), walk_file, <<>>, <<>>, w_table,
                                        newlines)
               /\ parser_done =>
                     w_parser = parser_visit_node(walk_tree(empty), walk_file, <<>>,
                                                  w_table, newlines)

(***************************************************************************)
(* Properties of single functions (specification SpecFunctions)            *)
(***************************************************************************)
\* the pieces of a text between its line feeds: k line feeds give k + 1 pieces
RECURSIVE split_lines(_)
split_lines(text) ==
    LET nl == find_from(text, <<"\n">>, 1)
    IN  IF nl = 0 THEN <<text>>
        ELSE <<SubSeq(text, 1, nl - 1)>> \o split_lines(SubSeq(text, nl + 1, Len(text)))

\* the leading run of whitespace of a line
leading_whitespace(line) == SubSeq(line, 1, run_length(line, Whitespace, 1))

\* the length of the longest leading-whitespace run common to a set of lines
common_run_length(S) ==
    IF S = {} THEN 0
    ELSE Max({n \in 0..Max({Len(l) : l \in S}) :
                \A l1, l2 \in S :
                    /\ Len(leading_whitespace(l1)) >= n
                    /\ SubSeq(l1, 1, n) = SubSeq(l2, 1, n)})

\* a line without its first n characters (all of it when it is shorter)
strip_leading(line, n) ==
    IF n >= Len(line) THEN <<>> ELSE SubSeq(line, n + 1, Len(line))

\* the text the documentation describes; the lines that decide the common run are the
\* later lines that are not empty, or, with blank_counts = FALSE, the later
\* lines that hold a character other than whitespace
dedent_expected(text, blank_counts) ==
    LET ls == split_lines(text)
        later == {ls[i] : i \in 2..Len(ls)}
        deciding == {l \in later :
                        IF blank_counts THEN Len(l) > 0 ELSE has_non_whitespace(l)}
        n == common_run_length(deciding)
    IN  join([i \in 1..Len(ls) |-> IF i = 1 THEN ls[1] ELSE strip_leading(ls[i], n)],
             <<"\n">>)

\* C13: custom_dedent keeps the first line, removes from every later line
\* exactly the longest leading-whitespace run common to the later non-empty
\* lines, and keeps the number of lines; under either reading of non-empty.
C13_CustomDedent ==
    (call = "custom_dedent" /\ returned.some) =>
        \/ returned.v = dedent_expected(args.text, TRUE)
        \/ returned.v = dedent_expected(args.text, FALSE)

\* str::to_uppercase on ASCII letters
to_uppercase(s) ==
    [i \in 1..Len(s) |->
        IF \E k \in 1..Len(LowerLetters) : LowerLetters[k] = s[i]
        THEN UpperLetters[CHOOSE k \in 1..Len(LowerLetters) : LowerLetters[k] = s[i]]
        ELSE s[i]]

\* the documented callout of a block, with a given header kind
callout(b, header) ==
    LET content_lines == split_lines(trim(b.content))
    IN  <<">", " ", "[", "!">> \o header \o <<"]", " ", " ">> \o <<"\n">>
        \o join([i \in 1..Len(content_lines) |-> <<">", " ">> \o content_lines[i]],
                 <<"\n">>)

\* the documented header of a kind: the kind upper-cased when it is one of
\* the five known kinds in any letter case, NOTE otherwise
KnownKinds ==
    { <<"n","o","t","e">>, <<"t","i","p">>, <<"i","m","p","o","r","t","a","n","t">>,
      <<"w","a","r","n","i","n","g">>, <<"c","a","u","t","i","o","n">> }
header_of(kind) ==
    IF to_lowercase(kind) \in KnownKinds THEN to_uppercase(kind) ELSE <<"N","O","T","E">>

\* the documented result for an input of convert_admonitions
admonitions_expected(input) ==
    input.pre
    \o join([i \in 1..Len(input.blocks) |->
                callout(input.blocks[i], header_of(input.blocks[i].kind)) \o input.post],
            <<>>)

\* the kinds for which C15 does not bear on the header: lower case, not caution
PlainKinds == {k \in KnownKinds : k # <<"c","a","u","t","i","o","n">>}

C15_AdmonitionKinds ==
    (call = "convert_admonitions" /\ returned.some)
        => returned.v = admonitions_expected(args)

\* C16: process_description applied to its own result, with the same
\* substitution table, returns that result unchanged.
C16_NormalizationIdempotent ==
    (call = "process_description" /\ returned.some)
        => process_description(returned.v, args.table) = returned.v


\* the entry a generator writes for one option record
rendered(opt, format) ==
    [format |-> format, name |-> opt.name,
     file_path |-> opt.file_path, line_number |-> opt.line_number]

\* p lists the positions of the records in ascending order of name, records of
\* equal name in the order of their positions
ascending_stable(opts, p) ==
    \A k, l \in 1..Len(opts) :
        k < l => \/ cmp_less(opts[p[k]].name, opts[p[l]].name)
                 \/ opts[p[k]].name = opts[p[l]].name /\ p[k] < p[l]

passes_filters(opt, cli) ==
    /\ cli.prefix.some => starts_with(opt.name, cli.prefix.v)
    /\ cli.type_filter.some =>
           contains(to_lowercase(to_string(opt.nix_type)), to_lowercase(cli.type_filter.v))
    /\ cli.search.some =>
           \/ contains(to_lowercase(opt.name), to_lowercase(cli.search.v))
           \/ /\ opt.description.some
              /\ contains(to_lowercase(opt.description.v), to_lowercase(cli.search.v))
    /\ cli.has_default => opt.default_value.some
    /\ cli.has_description => opt.description.some

\* C19: filter_options returns exactly the input records that satisfy every
\* active filter, in their input order and unmodified; with no filter active it
\* returns the input sequence unchanged.
C19_FilterOptions ==
    call = "filter_options" /\ returned.some =>
        LET cli == args.cli
            kept == {i \in 1..Len(args.options) : passes_filters(args.options[i], cli)}
            nth(k) == CHOOSE i \in kept : Cardinality({j \in kept : j < i}) = k - 1
        IN  /\ Len(returned.v) = Cardinality(kept)
            /\ \A k \in 1..Cardinality(kept) : returned.v[k] = args.options[nth(k)]
            /\ (~cli.prefix.some /\ ~cli.type_filter.some /\ ~cli.search.some
                /\ ~cli.has_default /\ ~cli.has_description) => returned.v = args.options

\* a search text in capitals found in a description in mixed case, with
\* another record dropped
C19_Witness ==
    /\ call = "filter_options"
    /\ returned.some
    /\ args.cli.search = Some(<<"F", "O", "O">>)
    /\ ~args.cli.type_filter.some
    /\ Len(args.options) = 3
    /\ Len(returned.v) = 1
    /\ returned.v[1].description = Some(<<"F", "o", "o">>)


\* the text between the first and the last occurrence of the delimiter q, and
\* whether the two occurrences are a pair (do not overlap)
delimited(t, q) ==
    LET first == find_from(t, q, 1)
        last == rfind(t, q)
    IN  [pair |-> first > 0 /\ last >= first + Len(q),
         inner |-> SubSeq(t, first + Len(q), last - 1)]

\* C22: for text that after trimming begins with literalExpression or
\* lib.literalExpression, clean_literal_expr returns the trimmed text between
\* the first and the last '' when there is such a pair, else the trimmed text
\* between the first and the last double quote when there is such a pair; for
\* every other input it returns the input unchanged.
C22_CleanLiteralExpr ==
    call = "clean_literal_expr" /\ returned.some =>
        LET t == trim(args.text)
            marked == \/ starts_with(t, literalExpression)
                      \/ starts_with(t, lib_literalExpression)
            indented == delimited(t, <<"'", "'">>)
            quoted == delimited(t, <<"\"">>)
        IN  returned.v = IF marked /\ indented.pair THEN trim(indented.inner)
                         ELSE IF marked /\ quoted.pair THEN trim(quoted.inner)
                         ELSE args.text


\* the primitive table: the type names that are matched exactly, with their kinds
PrimitiveTable ==
    { <<<<"t","y","p","e","s",".","b","o","o","l">>, "Bool">>,
      <<<<"t","y","p","e","s",".","i","n","t">>, "Int">>,
      <<<<"t","y","p","e","s",".","i","n","t","e","g","e","r">>, "Int">>,
      <<<<"t","y","p","e","s",".","f","l","o","a","t">>, "Float">>,
      <<<<"t","y","p","e","s",".","s","t","r">>, "Str">>,
      <<<<"t","y","p","e","s",".","s","t","r","i","n","g">>, "Str">>,
      <<<<"t","y","p","e","s",".","p","a","t","h">>, "Path">>,
      <<<<"t","y","p","e","s",".","a","t","t","r","s">>, "Attrs">>,
      <<<<"t","y","p","e","s",".","l","i","s","t","O","f">>, "List">> }

\* the wrapper names in the order of their priority, with their kinds
WrapperTable ==
    << <<<<"t","y","p","e","s",".","e","n","u","m">>, "Enum">>,
       <<<<"t","y","p","e","s",".","o","p","t","i","o","n">>, "Option">>,
       <<<<"t","y","p","e","s",".","e","i","t","h","e","r">>, "Either">> >>

tag_length(text, i) ==
    IF i <= Len(text) /\ text[i] = "{" THEN run_length(text, LowerAZ, i + 1) + 2 ELSE 0

role_span_length(text, i) ==
    LET tag == tag_length(text, i)
        open == i + tag
        close == find_from(text, <<Backtick>>, open + 1)
    IN  IF /\ tag >= 3
           /\ open - 1 <= Len(text) /\ text[open - 1] = "}"
           /\ open <= Len(text) /\ text[open] = Backtick
           /\ close >= open + 2
        THEN close - i + 1
        ELSE 0

\* the text with every role-tagged code span, from left to right, replaced by
\* its code span
RECURSIVE without_role_tags(_, _)
without_role_tags(text, i) ==
    IF i > Len(text) THEN <<>>
    ELSE IF role_span_length(text, i) > 0
    THEN SubSeq(text, i + tag_length(text, i), i + role_span_length(text, i) - 1)
         \o without_role_tags(text, i + role_span_length(text, i))
    ELSE <<text[i]>> \o without_role_tags(text, i + 1)

\* C24: clean_description replaces every role tag that is immediately followed
\* by a code span by the code span, leaves every other character as it is, and
\* leaves no role-tagged code span in its output.
C24_RoleTagsRemoved ==
    call = "clean_description" /\ returned.some =>
        /\ returned.v = without_role_tags(args.text, 1)
        /\ \A i \in 1..Len(returned.v) : role_span_length(returned.v, i) = 0

====
